---- MODULE Spec2Model ----
(***************************************************************************)
(* A model of the Jellyfin catalog generator (src/jellyork_catalog.py):    *)
(* the library scanner, the season aggregator, the track extraction and    *)
(* the sort engine.                                                        *)
(*                                                                         *)
(* Python strings are modelled as sequences of one-character strings, so   *)
(* that lower(), strip(), split(), join() and the code-point comparison of *)
(* strings are computed and not assumed.  None is the model value NoneVal. *)
(***************************************************************************)
EXTENDS Integers, Sequences, FiniteSets, TLC

VARIABLES
    title,        \* CatalogSorter._get_sort_key: the argument
    sort_key,     \* CatalogSorter._get_sort_key: the value returned
    key_pc,       \* "call" before _get_sort_key has run, "done" after
    items,        \* main: the list handed to the sorter
    sorted_items, \* main: the list the sorter returned
    sort_method,  \* main: args.sort once the sorter has run, "none" before
    base_path,    \* the library root: "ok", "missing" or "unreadable"
    library,      \* the *.nfo files under base_path, in the order rglob lists them
    scanner_items,\* JellyfinScanner.items
    scan_calls,   \* how many times scan() has been called on the scanner
    scan_outcome, \* "none", then "returned" or "raised" for the last scan() call
    main_result,  \* main: "none", "No media found!" or "catalog"
    nfo_doc,      \* _parse_nfo / _parse_tvshow_with_seasons: the content of nfo_path
    parent_dir,   \* the listing of nfo_path.parent
    parsed_item,  \* the MediaItem (or None) the parse method returned
    parse_pc,     \* "call", then "nfo" or "tvshow": the parse method that ran
    scan_episode_nfos, \* scan: the episode_nfos list of the last call (paths)
    error_log,    \* the paths named by the "Error parsing ..." lines printed
    first_result, \* the list seen through the reference the first scan() returned
    lang_code,    \* _convert_language_code: the argument
    lang_name,    \* _convert_language_code: the value returned
    lang_pc,      \* "call" before _convert_language_code has run, "done" after
    poster_files, \* the files of a show directory and one season directory of it
    poster_season_num, \* _find_season_poster: season_num
    found_poster, \* the path _find_poster / _find_season_poster returned
    poster_pc     \* "call", then "poster" or "season": the method that ran

keyVars == <<title, sort_key, key_pc>>

sortVars == <<items, sorted_items, sort_method>>

scanVars ==
    <<base_path, library, scanner_items, scan_calls, scan_outcome, main_result,
      scan_episode_nfos, error_log, first_result>>

parseVars == <<nfo_doc, parent_dir, parsed_item, parse_pc>>

langVars == <<lang_code, lang_name, lang_pc>>

posterVars == <<poster_files, poster_season_num, found_poster, poster_pc>>

vars == <<keyVars, sortVars, scanVars, parseVars, langVars, posterVars>>

\* Python's None: a value no str of the model is equal to.
NoneVal == <<"None">>

\* The parts of the state a specification does not use stay as they are here.
KeyIdle == title = <<>> /\ sort_key = NoneVal /\ key_pc = "idle"

SortIdle == items = <<>> /\ sorted_items = <<>> /\ sort_method = "idle"

ScanIdle ==
    /\ base_path = "idle"
    /\ library = <<>>
    /\ scanner_items = <<>>
    /\ scan_calls = 0
    /\ scan_outcome = "idle"
    /\ main_result = "idle"
    /\ scan_episode_nfos = <<>>
    /\ error_log = <<>>
    /\ first_result = <<>>

ParseIdle ==
    /\ nfo_doc = [error |-> "idle"]
    /\ parent_dir = <<>>
    /\ parsed_item = [none |-> TRUE]
    /\ parse_pc = "idle"

LangIdle == lang_code = <<>> /\ lang_name = NoneVal /\ lang_pc = "idle"

PosterIdle ==
    /\ poster_files = <<>>
    /\ poster_season_num = 0
    /\ found_poster = [none |-> TRUE]
    /\ poster_pc = "idle"


(***************************************************************************)
(* Strings                                                                 *)
(***************************************************************************)

\* The characters the model uses, in code-point order.
AsciiOrder ==
    <<" ", "-", ".", "0", "1", "2", "3", "4", "5", "6", "7", "8", "9",
      "A", "B", "C", "D", "E", "F", "G", "H", "I", "J", "K", "L", "M",
      "N", "O", "P", "Q", "R", "S", "T", "U", "V", "W", "X", "Y", "Z", "_",
      "a", "b", "c", "d", "e", "f", "g", "h", "i", "j", "k", "l", "m",
      "n", "o", "p", "q", "r", "s", "t", "u", "v", "w", "x", "y", "z">>

UpperLetters ==
    <<"A", "B", "C", "D", "E", "F", "G", "H", "I", "J", "K", "L", "M",
      "N", "O", "P", "Q", "R", "S", "T", "U", "V", "W", "X", "Y", "Z">>

LowerLetters ==
    <<"a", "b", "c", "d", "e", "f", "g", "h", "i", "j", "k", "l", "m",
      "n", "o", "p", "q", "r", "s", "t", "u", "v", "w", "x", "y", "z">>

Whitespace == {" "}

Digits == {"0", "1", "2", "3", "4", "5", "6", "7", "8", "9"}

Chars == {AsciiOrder[i] : i \in 1..Len(AsciiOrder)}

\* The position of each character in AsciiOrder.
OrdTable == [c \in Chars |-> CHOOSE i \in 1..Len(AsciiOrder) : AsciiOrder[i] = c]

\* ord(c), up to the gaps between the characters of the model
Ord(c) == OrdTable[c]

LowerTable ==
    [c \in Chars |->
        IF \E i \in 1..Len(UpperLetters) : UpperLetters[i] = c
        THEN LowerLetters[CHOOSE i \in 1..Len(UpperLetters) : UpperLetters[i] = c]
        ELSE c]

UpperTable ==
    [c \in Chars |->
        IF \E i \in 1..Len(LowerLetters) : LowerLetters[i] = c
        THEN UpperLetters[CHOOSE i \in 1..Len(LowerLetters) : LowerLetters[i] = c]
        ELSE c]

LowerChar(c) == LowerTable[c]

UpperChar(c) == UpperTable[c]

\* str.lower()
Lower(s) == [i \in 1..Len(s) |-> LowerChar(s[i])]

\* str.upper()
Upper(s) == [i \in 1..Len(s) |-> UpperChar(s[i])]

\* str.capitalize(): first character upper-cased, the rest lower-cased
Capitalize(s) ==
    [i \in 1..Len(s) |-> IF i = 1 THEN UpperChar(s[i]) ELSE LowerChar(s[i])]

\* str.strip()
Strip(s) ==
    LET keep == {i \in 1..Len(s) : s[i] \notin Whitespace}
    IN  IF keep = {} THEN <<>>
        ELSE LET lo == CHOOSE i \in keep : \A j \in keep : i <= j
                 hi == CHOOSE i \in keep : \A j \in keep : j <= i
             IN  SubSeq(s, lo, hi)

\* str.startswith(prefix)
StartsWith(s, prefix) ==
    /\ Len(prefix) <= Len(s)
    /\ SubSeq(s, 1, Len(prefix)) = prefix

\* str.endswith(suffix)
EndsWith(s, suffix) ==
    /\ Len(suffix) <= Len(s)
    /\ SubSeq(s, Len(s) - Len(suffix) + 1, Len(s)) = suffix

\* a < b for two str values: the code points decide, a proper prefix is less
StrLess(a, b) ==
    \E k \in 1..(Len(b)) :
        /\ k <= Len(a) + 1
        /\ \A j \in 1..(k - 1) : a[j] = b[j]
        /\ \/ k = Len(a) + 1
           \/ /\ k <= Len(a)
              /\ Ord(a[k]) < Ord(b[k])

\* a < b for two tuples of str values of the same length
TupleLess(a, b) ==
    \E k \in 1..Len(a) :
        /\ \A j \in 1..(k - 1) : a[j] = b[j]
        /\ a[k] # b[k]
        /\ StrLess(a[k], b[k])

\* str.split(): the maximal runs of non-whitespace characters, in order
RECURSIVE SplitWords(_)
SplitWords(s) ==
    IF s = <<>> THEN <<>>
    ELSE IF s[1] \in Whitespace THEN SplitWords(Tail(s))
    ELSE LET stops == {i \in 1..Len(s) : s[i] \in Whitespace}
             end   == IF stops = {} THEN Len(s) + 1
                      ELSE CHOOSE i \in stops : \A j \in stops : i <= j
         IN  <<SubSeq(s, 1, end - 1)>> \o SplitWords(SubSeq(s, end, Len(s)))

\* sep.join(words)
RECURSIVE Join(_, _)
Join(words, sep) ==
    IF words = <<>> THEN <<>>
    ELSE IF Len(words) = 1 THEN words[1]
    ELSE words[1] \o sep \o Join(Tail(words), sep)

(***************************************************************************)
(* CatalogSorter._get_sort_key                                             *)
(***************************************************************************)

ARTICLES ==
    { <<"d", "e", "r">>, <<"d", "i", "e">>, <<"d", "a", "s">>,
      <<"e", "i", "n">>, <<"e", "i", "n", "e">>,
      <<"t", "h", "e">>, <<"a">>, <<"a", "n">>,
      <<"l", "e">>, <<"l", "a">>, <<"l", "e", "s">>,
      <<"u", "n">>, <<"u", "n", "e">>, <<"d", "e", "s">>,
      <<"e", "l">>, <<"l", "o", "s">>, <<"l", "a", "s">>,
      <<"u", "n", "a">>, <<"u", "n", "o", "s">>, <<"u", "n", "a", "s">> }

\* A plausible slip: the article is cut off the lower-cased title and the rest
\* is returned as it stands, instead of re-joining the remaining words.
get_sort_key_cut(t) ==
    IF t = <<>> THEN <<>>
    ELSE LET title_lower == Strip(Lower(t))
             words       == SplitWords(title_lower)
         IN  IF words = <<>> THEN title_lower
             ELSE IF words[1] \in ARTICLES /\ Len(words) > 1
                  THEN Strip(SubSeq(title_lower, Len(words[1]) + 1, Len(title_lower)))
                  ELSE title_lower

_get_sort_key(t) ==
    IF t = <<>> THEN <<>>
    ELSE LET title_lower == Strip(Lower(t))
             words       == SplitWords(title_lower)
         IN  IF words = <<>> THEN title_lower
             ELSE IF words[1] \in ARTICLES /\ Len(words) > 1
                  THEN Join(Tail(words), <<" ">>)
                  ELSE title_lower

(***************************************************************************)
(* Specification SpecKey: _get_sort_key applied to every title over a      *)
(* small alphabet.                                                         *)
(***************************************************************************)

MaxTitleLen == 6

TitleChars == {"a", "A", "l", "x", " "}

KeyTitles == UNION {[1..n -> TitleChars] : n \in 0..MaxTitleLen}

InitKey ==
    /\ title \in KeyTitles
    /\ sort_key = NoneVal
    /\ key_pc = "call"
    /\ SortIdle
    /\ ScanIdle
    /\ ParseIdle
    /\ LangIdle
    /\ PosterIdle

GetSortKey ==
    /\ key_pc = "call"
    /\ sort_key' = _get_sort_key(title)
    /\ key_pc' = "done"
    /\ UNCHANGED <<title, sortVars, scanVars, parseVars, langVars, posterVars>>

NextKey == GetSortKey

SpecKey == InitKey /\ [][NextKey]_vars

(***************************************************************************)
(* Claims about _get_sort_key                                              *)
(***************************************************************************)

\* The first whitespace-delimited word of t is, case-insensitively, an article
\* and at least one more word follows it.
HasLeadingArticle(t) ==
    LET w == SplitWords(t)
    IN  Len(w) > 1 /\ Lower(w[1]) \in ARTICLES

\* t with its first word and the whitespace after that word removed
DropLeadingArticle(t) ==
    LET First(S) == CHOOSE i \in S : \A j \in S : i <= j
        a    == First({i \in 1..Len(t) : t[i] \notin Whitespace})
        e    == First({i \in a..Len(t) : t[i] \in Whitespace})
        next == First({i \in e..Len(t) : t[i] \notin Whitespace})
    IN  SubSeq(t, 1, a - 1) \o SubSeq(t, next, Len(t))

\* the words of t are separated by single whitespace characters
SingleSpaced(t) ==
    LET s == Strip(t)
    IN  \A i \in 1..(Len(s) - 1) : ~(s[i] \in Whitespace /\ s[i + 1] \in Whitespace)

\* C2 as stated: for every title t that starts with an article followed by at
\* least one more word, sortKey(t) = sortKey(t'), t' being t without that
\* article and the whitespace after it (also when the second word is an article
\* and when later words are separated by runs of spaces).
C2_Original ==
    (key_pc = "done" /\ HasLeadingArticle(title))
        => sort_key = _get_sort_key(DropLeadingArticle(title))

\* C2 as amended: for every such title, sortKey(t) is the lower-cased words of
\* t' joined by single spaces (one article is removed, runs of spaces collapse);
\* it equals sortKey(t') whenever t' does not itself start with an article
\* followed by another word and its words are separated by single spaces.
C2_SortKeyDropsOneArticle ==
    (key_pc = "done" /\ HasLeadingArticle(title))
        => LET rest == DropLeadingArticle(title)
           IN  /\ sort_key = Join(SplitWords(Lower(rest)), <<" ">>)
               /\ (~HasLeadingArticle(rest) /\ SingleSpaced(rest))
                     => sort_key = _get_sort_key(rest)

\* C2 witness: the key of a title whose first and second words are articles
\* and that has a third word has been computed.
C2_Witness ==
    /\ key_pc = "done"
    /\ HasLeadingArticle(title)
    /\ HasLeadingArticle(DropLeadingArticle(title))
    /\ sort_key # _get_sort_key(DropLeadingArticle(title))

(***************************************************************************)
(* CatalogSorter.sort_by_title / sort_by_year / sort_by_type               *)
(***************************************************************************)

MOVIE == <<"m", "o", "v", "i", "e">>

TVSHOW == <<"t", "v", "s", "h", "o", "w">>

Reverse(s) == [i \in 1..Len(s) |-> s[Len(s) + 1 - i]]

\* One step of a stable sort: e goes before the first element whose key is
\* strictly greater than its own, hence after every element with an equal key.
InsertStable(dec, e) ==
    LET later == {i \in 1..Len(dec) : TupleLess(e.k, dec[i].k)}
        pos   == IF later = {} THEN Len(dec) + 1
                 ELSE CHOOSE i \in later : \A j \in later : i <= j
    IN  SubSeq(dec, 1, pos - 1) \o <<e>> \o SubSeq(dec, pos, Len(dec))

RECURSIVE SortDecorated(_)
SortDecorated(dec) ==
    IF dec = <<>> THEN <<>>
    ELSE InsertStable(SortDecorated(SubSeq(dec, 1, Len(dec) - 1)), dec[Len(dec)])

\* A plausible slip: descending order obtained by reversing the ascending
\* result, which also reverses the elements whose keys are equal.
sorted_reversed_after(list, keys, reverse) ==
    LET dec == [i \in 1..Len(list) |-> [k |-> keys[i], v |-> list[i]]]
        out == IF reverse THEN Reverse(SortDecorated(dec)) ELSE SortDecorated(dec)
    IN  [i \in 1..Len(out) |-> out[i].v]

\* sorted(list, key=..., reverse=...): keys[i] is the key of list[i].  The sort is
\* stable; with reverse the list is reversed, sorted and reversed again, which
\* keeps elements with equal keys in their original order.
sorted(list, keys, reverse) ==
    LET dec == [i \in 1..Len(list) |-> [k |-> keys[i], v |-> list[i]]]
        out == IF reverse THEN Reverse(SortDecorated(Reverse(dec)))
               ELSE SortDecorated(dec)
    IN  [i \in 1..Len(out) |-> out[i].v]

sort_by_title(list) ==
    sorted(list, [i \in 1..Len(list) |-> <<_get_sort_key(list[i].title)>>], FALSE)

\* x.year or "0000"
YearOrZeros(x) == IF x.year = NoneVal \/ x.year = <<>> THEN <<"0", "0", "0", "0">> ELSE x.year

sort_by_year(list) ==
    sorted(list,
           [i \in 1..Len(list) |->
               <<YearOrZeros(list[i]), _get_sort_key(list[i].title)>>],
           TRUE)

\* A plausible slip: reverse=True copied over from sort_by_year.
sort_by_type_reversed(list) ==
    sorted(list,
           [i \in 1..Len(list) |->
               <<list[i].media_type, _get_sort_key(list[i].title)>>],
           TRUE)

sort_by_type(list) ==
    sorted(list,
           [i \in 1..Len(list) |->
               <<list[i].media_type, _get_sort_key(list[i].title)>>],
           FALSE)

(***************************************************************************)
(* Descriptor files and directories                                        *)
(*                                                                         *)
(* A parsed descriptor is a record                                         *)
(*   [tag, title, year, streamdetails]                                     *)
(* where title and year are the text of the child element (NoneVal: no such *)
(* element, or no text) and streamdetails is NoStreamdetails (no fileinfo   *)
(* or no streamdetails element) or [audio, subtitle]: the audio elements, each   *)
(* [language, codec, channels], and the subtitle elements, each the text   *)
(* of its language child, NoneVal where the child or its text is missing.  *)
(* A file that ET.parse rejects has the content ParseError.                *)
(* A file is [name, doc]; a directory entry is [name, is_dir, files].      *)
(***************************************************************************)

ParseError == [error |-> "ParseError"]

NoStreamdetails == [none |-> TRUE]

\* bool(text) for an element's text: None and "" are false
HasText(text) == text # NoneVal /\ text # <<>>

\* JellyfinScanner._get_text
_get_text(text) == IF HasText(text) THEN Strip(text) ELSE NoneVal

(***************************************************************************)
(* JellyfinScanner._convert_language_code                                  *)
(***************************************************************************)

German == <<"G", "e", "r", "m", "a", "n">>

English == <<"E", "n", "g", "l", "i", "s", "h">>

French == <<"F", "r", "e", "n", "c", "h">>

Spanish == <<"S", "p", "a", "n", "i", "s", "h">>

Italian == <<"I", "t", "a", "l", "i", "a", "n">>

Japanese == <<"J", "a", "p", "a", "n", "e", "s", "e">>

Russian == <<"R", "u", "s", "s", "i", "a", "n">>

Chinese == <<"C", "h", "i", "n", "e", "s", "e">>

Portuguese == <<"P", "o", "r", "t", "u", "g", "u", "e", "s", "e">>

Polish == <<"P", "o", "l", "i", "s", "h">>

Turkish == <<"T", "u", "r", "k", "i", "s", "h">>

Arabic == <<"A", "r", "a", "b", "i", "c">>

language_map ==
    <<<<<<"g", "e", "r">>, German>>,
      <<<<"d", "e", "u">>, German>>,
      <<<<"d", "e">>, German>>,
      <<<<"e", "n", "g">>, English>>,
      <<<<"e", "n">>, English>>,
      <<<<"f", "r", "a">>, French>>,
      <<<<"f", "r", "e">>, French>>,
      <<<<"f", "r">>, French>>,
      <<<<"s", "p", "a">>, Spanish>>,
      <<<<"e", "s">>, Spanish>>,
      <<<<"i", "t", "a">>, Italian>>,
      <<<<"i", "t">>, Italian>>,
      <<<<"j", "p", "n">>, Japanese>>,
      <<<<"j", "a">>, Japanese>>,
      <<<<"r", "u", "s">>, Russian>>,
      <<<<"r", "u">>, Russian>>,
      <<<<"c", "h", "i">>, Chinese>>,
      <<<<"z", "h">>, Chinese>>,
      <<<<"p", "o", "r">>, Portuguese>>,
      <<<<"p", "t">>, Portuguese>>,
      <<<<"p", "o", "l">>, Polish>>,
      <<<<"p", "l">>, Polish>>,
      <<<<"t", "u", "r">>, Turkish>>,
      <<<<"t", "r">>, Turkish>>,
      <<<<"a", "r", "a">>, Arabic>>,
      <<<<"a", "r">>, Arabic>>>>

\* A plausible slip: the table is looked up with the code as written.
convert_language_code_as_written(code) ==
    LET hits == {i \in 1..Len(language_map) : language_map[i][1] = code}
    IN  IF hits # {} THEN language_map[CHOOSE i \in hits : TRUE][2]
        ELSE Capitalize(code)

_convert_language_code(code) ==
    LET code_lower == Lower(code)
        hits == {i \in 1..Len(language_map) : language_map[i][1] = code_lower}
    IN  IF hits # {} THEN language_map[CHOOSE i \in hits : TRUE][2]
        ELSE Capitalize(code)

(***************************************************************************)
(* Specification SpecLang: _convert_language_code applied to the codes of  *)
(* the table in every mix of upper and lower case, and to other strings of *)
(* up to MaxCodeLen characters.                                            *)
(***************************************************************************)

MaxCodeLen == 3

OtherCodeChars == {"x", "X", "e", "N", " "}

\* s with the characters at the positions in up upper-cased
UpperAt(s, up) == [i \in 1..Len(s) |-> IF i \in up THEN UpperChar(s[i]) ELSE s[i]]

TableCodes == {language_map[i][1] : i \in 1..Len(language_map)}

LangCodes ==
    UNION { {UpperAt(c, up) : up \in SUBSET (1..Len(c))} : c \in TableCodes }
        \cup UNION {[1..n -> OtherCodeChars] : n \in 0..MaxCodeLen}

InitLang ==
    /\ lang_code \in LangCodes
    /\ lang_name = NoneVal
    /\ lang_pc = "call"
    /\ KeyIdle
    /\ SortIdle
    /\ ScanIdle
    /\ ParseIdle
    /\ PosterIdle

\* self._convert_language_code(code)
ConvertLanguageCode ==
    /\ lang_pc = "call"
    /\ lang_name' = _convert_language_code(lang_code)
    /\ lang_pc' = "done"
    /\ UNCHANGED <<lang_code, keyVars, sortVars, scanVars, parseVars, posterVars>>

NextLang == ConvertLanguageCode

SpecLang == InitLang /\ [][NextLang]_vars

\* The display names of the table.
DisplayNamesOfTable == {language_map[i][2] : i \in 1..Len(language_map)}

\* C11: for every code of the language table, in whatever case it is written,
\* normalize(code), normalize(code.upper()) and normalize(code.lower()) are the
\* same display name of the table.
C11_NormalizeIgnoresCase ==
    (lang_pc = "done" /\ Lower(lang_code) \in TableCodes) =>
        /\ lang_name \in DisplayNamesOfTable
        /\ lang_name = _convert_language_code(Upper(lang_code))
        /\ lang_name = _convert_language_code(Lower(lang_code))

\* C11 witness: a three-letter code of the table, written as the table writes
\* it, has been converted, and its upper-cased form is another string.
C11_Witness ==
    /\ lang_pc = "done"
    /\ lang_code \in TableCodes
    /\ Len(lang_code) = 3
    /\ Upper(lang_code) # lang_code
    /\ lang_name = German

(***************************************************************************)
(* JellyfinScanner._extract_subtitle_tracks / _extract_audio_tracks        *)
(***************************************************************************)

\* The loop over streamdetails.findall('subtitle'), subtitle_tracks so far.
RECURSIVE SubtitleLoop(_, _)
SubtitleLoop(elements, subtitle_tracks) ==
    IF elements = <<>> THEN subtitle_tracks
    ELSE LET language == elements[1]
         IN  IF HasText(language)
             THEN LET lang == _convert_language_code(Strip(language))
                  IN  IF \E i \in 1..Len(subtitle_tracks) : subtitle_tracks[i] = lang
                      THEN SubtitleLoop(Tail(elements), subtitle_tracks)
                      ELSE SubtitleLoop(Tail(elements), Append(subtitle_tracks, lang))
             ELSE SubtitleLoop(Tail(elements), subtitle_tracks)

\* A plausible slip: the duplicate test looks at the language codes as written
\* in the file and not at the display names they are converted to.
RECURSIVE SubtitleLoopRawCodes(_, _, _)
SubtitleLoopRawCodes(elements, seen, subtitle_tracks) ==
    IF elements = <<>> THEN subtitle_tracks
    ELSE LET language == elements[1]
         IN  IF HasText(language) /\ Strip(language) \notin seen
             THEN SubtitleLoopRawCodes(Tail(elements), seen \cup {Strip(language)},
                      Append(subtitle_tracks, _convert_language_code(Strip(language))))
             ELSE SubtitleLoopRawCodes(Tail(elements), seen, subtitle_tracks)

extract_subtitle_tracks_raw_codes(root) ==
    IF root.streamdetails = NoStreamdetails THEN <<>>
    ELSE SubtitleLoopRawCodes(root.streamdetails.subtitle, {}, <<>>)

_extract_subtitle_tracks(root) ==
    IF root.streamdetails = NoStreamdetails THEN <<>>
    ELSE SubtitleLoop(root.streamdetails.subtitle, <<>>)

\* The parts list built for one audio element.
AudioParts(audio) ==
    (IF HasText(audio.language)
     THEN <<_convert_language_code(Strip(audio.language))>> ELSE <<>>)
    \o (IF HasText(audio.codec) THEN <<Upper(Strip(audio.codec))>> ELSE <<>>)
    \o (IF HasText(audio.channels) /\ Strip(audio.channels) # <<>>
        THEN <<Strip(audio.channels) \o <<"c", "h">> >> ELSE <<>>)

RECURSIVE AudioLoop(_, _)
AudioLoop(elements, audio_tracks) ==
    IF elements = <<>> THEN audio_tracks
    ELSE LET parts == AudioParts(elements[1])
         IN  IF parts # <<>>
             THEN AudioLoop(Tail(elements), Append(audio_tracks, Join(parts, <<" ">>)))
             ELSE AudioLoop(Tail(elements), audio_tracks)

_extract_audio_tracks(root) ==
    IF root.streamdetails = NoStreamdetails THEN <<>>
    ELSE AudioLoop(root.streamdetails.audio, <<>>)

SEASON == <<"s", "e", "a", "s", "o", "n">>

DOT_NFO == <<".", "n", "f", "o">>

(***************************************************************************)
(* JellyfinScanner._find_poster / _find_season_poster                      *)
(*                                                                         *)
(* A directory is the sequence of the names of its entries, in the order   *)
(* the directory lists them.  A path is [dir, name] for the model's         *)
(* directories, NoPath stands for None.                                    *)
(***************************************************************************)

NoPath == [none |-> TRUE]

JPG == <<".", "j", "p", "g">>

JPEG == <<".", "j", "p", "e", "g">>

PNG == <<".", "p", "n", "g">>

\* str(n) for n >= 0
RECURSIVE Str(_)
Str(n) ==
    IF n < 10 THEN <<AsciiOrder[Ord("0") + n]>>
    ELSE Str(n \div 10) \o <<AsciiOrder[Ord("0") + (n % 10)]>>

\* f"{n:02d}"
Str02(n) == IF n < 10 THEN <<"0">> \o Str(n) ELSE Str(n)

\* (directory / name).exists()
ExistsIn(directory, name) == \E i \in 1..Len(directory) : directory[i] = name

\* for name in names: if (directory / name).exists(): return it.  The name
\* returned, NoneVal when the loop ends without a return.
FirstExisting(directory, names) ==
    LET hits == {i \in 1..Len(names) : ExistsIn(directory, names[i])}
    IN  IF hits = {} THEN NoneVal
        ELSE names[CHOOSE i \in hits : \A j \in hits : i <= j]

\* list(directory.glob('*' + ext))
GlobExt(directory, ext) == SelectSeq(directory, LAMBDA name : EndsWith(name, ext))

\* for ext in ['.jpg', '.jpeg', '.png']: images = ...; if images: return images[0]
FirstImage(directory) ==
    IF GlobExt(directory, JPG) # <<>> THEN GlobExt(directory, JPG)[1]
    ELSE IF GlobExt(directory, JPEG) # <<>> THEN GlobExt(directory, JPEG)[1]
    ELSE IF GlobExt(directory, PNG) # <<>> THEN GlobExt(directory, PNG)[1]
    ELSE NoneVal

poster_names ==
    << <<"p", "o", "s", "t", "e", "r", ".", "j", "p", "g">>,
       <<"p", "o", "s", "t", "e", "r", ".", "p", "n", "g">>,
       <<"f", "o", "l", "d", "e", "r", ".", "j", "p", "g">>,
       <<"f", "o", "l", "d", "e", "r", ".", "p", "n", "g">>,
       <<"c", "o", "v", "e", "r", ".", "j", "p", "g">>,
       <<"c", "o", "v", "e", "r", ".", "p", "n", "g">> >>

\* A plausible slip: the names are listed by extension, every .jpg name before
\* the .png names.
find_poster_jpg_names_first(directory) ==
    LET names == << poster_names[1], poster_names[3], poster_names[5],
                    poster_names[2], poster_names[4], poster_names[6] >>
    IN  IF FirstExisting(directory, names) # NoneVal
        THEN FirstExisting(directory, names)
        ELSE FirstImage(directory)

\* The name of the file found in directory, NoneVal for None.
_find_poster(directory) ==
    IF FirstExisting(directory, poster_names) # NoneVal
    THEN FirstExisting(directory, poster_names)
    ELSE FirstImage(directory)

SEASON_DASH == <<"s", "e", "a", "s", "o", "n", "-">>

POSTER_JPG == <<"-", "p", "o", "s", "t", "e", "r", ".", "j", "p", "g">>

POSTER_PNG == <<"-", "p", "o", "s", "t", "e", "r", ".", "p", "n", "g">>

show_poster_names(season_num) ==
    << SEASON \o Str02(season_num) \o POSTER_JPG,
       SEASON \o Str02(season_num) \o POSTER_PNG,
       SEASON \o Str(season_num) \o POSTER_JPG,
       SEASON \o Str(season_num) \o POSTER_PNG,
       SEASON_DASH \o Str02(season_num) \o POSTER_JPG,
       SEASON_DASH \o Str02(season_num) \o POSTER_PNG >>

season_poster_names(season_num) ==
    << poster_names[1], poster_names[2], poster_names[3], poster_names[4],
       SEASON \o Str02(season_num) \o POSTER_JPG,
       SEASON \o Str02(season_num) \o POSTER_PNG >>

\* A plausible slip: the season directory is searched before the show
\* directory.
find_season_poster_season_dir_first(season_dir, season_num, show_dir) ==
    IF FirstExisting(season_dir, season_poster_names(season_num)) # NoneVal
    THEN [dir  |-> "season_dir",
          name |-> FirstExisting(season_dir, season_poster_names(season_num))]
    ELSE IF FirstExisting(show_dir, show_poster_names(season_num)) # NoneVal
    THEN [dir  |-> "show_dir",
          name |-> FirstExisting(show_dir, show_poster_names(season_num))]
    ELSE IF FirstImage(season_dir) # NoneVal
    THEN [dir |-> "season_dir", name |-> FirstImage(season_dir)]
    ELSE NoPath

_find_season_poster(season_dir, season_num, show_dir) ==
    IF FirstExisting(show_dir, show_poster_names(season_num)) # NoneVal
    THEN [dir  |-> "show_dir",
          name |-> FirstExisting(show_dir, show_poster_names(season_num))]
    ELSE IF FirstExisting(season_dir, season_poster_names(season_num)) # NoneVal
    THEN [dir  |-> "season_dir",
          name |-> FirstExisting(season_dir, season_poster_names(season_num))]
    ELSE IF FirstImage(season_dir) # NoneVal
    THEN [dir |-> "season_dir", name |-> FirstImage(season_dir)]
    ELSE NoPath

\* The names of the entries of a directory listing.
EntryNames(entries) == [i \in 1..Len(entries) |-> entries[i].name]

\* directory / name as a path, NoPath when _find_poster found no name
PathIn(directory, name) ==
    IF name = NoneVal THEN NoPath ELSE [dir |-> directory, name |-> name]

\* season_num = None: no integer that int() returns for a run of digits
NoNumber == -1

(***************************************************************************)
(* Specification SpecPoster: _find_poster and _find_season_poster on the   *)
(* files of a show directory and of one season directory of it, up to      *)
(* MaxPosterFiles files in all, in every order the directories may list    *)
(* them.  Either the show directory alone is given, for _find_poster, or   *)
(* both directories and the number of the season.                          *)
(***************************************************************************)

MaxPosterFiles == 3

BANNER_JPG == <<"b", "a", "n", "n", "e", "r", ".", "j", "p", "g">>

FANART_JPEG == <<"f", "a", "n", "a", "r", "t", ".", "j", "p", "e", "g">>

LOGO_PNG == <<"l", "o", "g", "o", ".", "p", "n", "g">>

OtherImages == { BANNER_JPG, FANART_JPEG, LOGO_PNG }

\* The files of a directory searched by _find_poster.
DirectoryFiles ==
    [dir : {"show_dir"}, name : {poster_names[i] : i \in 1..Len(poster_names)} \cup OtherImages]

\* The files of a show directory and a season directory searched by
\* _find_season_poster.
SeasonPosterFiles ==
    [dir : {"show_dir"}, name : {show_poster_names(1)[i] : i \in 1..6}]
        \cup [dir : {"season_dir"},
              name : {season_poster_names(1)[i] : i \in 1..6} \cup OtherImages]

PosterSeasonNums == {1, 2}

\* The listings of up to MaxPosterFiles files of pool, no file listed twice.
Listings(pool) ==
    UNION { { l \in [1..n -> pool] : \A i \in 1..n : \A j \in (i + 1)..n : l[i] # l[j] }
            : n \in 0..MaxPosterFiles }

\* The names of the files of directory d, in listing order.
DirOf(files, d) == EntryNames(SelectSeq(files, LAMBDA f : f.dir = d))

InitPoster ==
    /\ \/ /\ poster_files \in Listings(DirectoryFiles)
          /\ poster_season_num = NoNumber
       \/ /\ poster_files \in Listings(SeasonPosterFiles)
          /\ poster_season_num \in PosterSeasonNums
    /\ found_poster = NoPath
    /\ poster_pc = "call"
    /\ KeyIdle
    /\ SortIdle
    /\ ScanIdle
    /\ ParseIdle
    /\ LangIdle

\* self._find_poster(nfo_path.parent)
FindPoster ==
    /\ poster_pc = "call"
    /\ found_poster' = PathIn("show_dir", _find_poster(DirOf(poster_files, "show_dir")))
    /\ poster_pc' = "poster"
    /\ UNCHANGED <<poster_files, poster_season_num, keyVars, sortVars, scanVars, parseVars, langVars>>

\* self._find_season_poster(season_dir, season_num, show_dir)
FindSeasonPoster ==
    /\ poster_pc = "call"
    /\ poster_season_num # NoNumber
    /\ found_poster' = _find_season_poster(DirOf(poster_files, "season_dir"),
                                           poster_season_num,
                                           DirOf(poster_files, "show_dir"))
    /\ poster_pc' = "season"
    /\ UNCHANGED <<poster_files, poster_season_num, keyVars, sortVars, scanVars, parseVars, langVars>>

NextPoster == FindPoster \/ FindSeasonPoster

SpecPoster == InitPoster /\ [][NextPoster]_vars

(***************************************************************************)
(* Claims about the artwork lookup                                         *)
(***************************************************************************)

\* name is one of the names of the listing
Listed(directory, name) == \E i \in 1..Len(directory) : directory[i] = name

\* name is the first name of order that the directory holds
FirstListedOf(directory, order, name) ==
    \E i \in 1..Len(order) :
        /\ order[i] = name
        /\ Listed(directory, name)
        /\ \A j \in 1..(i - 1) : ~Listed(directory, order[j])

NoneListedOf(directory, order) == \A i \in 1..Len(order) : ~Listed(directory, order[i])

HasExtension(directory, ext) == \E i \in 1..Len(directory) : EndsWith(directory[i], ext)

\* name is a file of the directory with the first of the extensions .jpg,
\* .jpeg, .png that any file of the directory has
ImageByExtensionOrder(directory, name) ==
    /\ Listed(directory, name)
    /\ \/ EndsWith(name, <<".", "j", "p", "g">>)
       \/ /\ ~HasExtension(directory, <<".", "j", "p", "g">>)
          /\ EndsWith(name, <<".", "j", "p", "e", "g">>)
       \/ /\ ~HasExtension(directory, <<".", "j", "p", "g">>)
          /\ ~HasExtension(directory, <<".", "j", "p", "e", "g">>)
          /\ EndsWith(name, <<".", "p", "n", "g">>)

NoImage(directory) ==
    /\ ~HasExtension(directory, <<".", "j", "p", "g">>)
    /\ ~HasExtension(directory, <<".", "j", "p", "e", "g">>)
    /\ ~HasExtension(directory, <<".", "p", "n", "g">>)

CanonicalArtworkNames ==
    << <<"p", "o", "s", "t", "e", "r", ".", "j", "p", "g">>,
       <<"p", "o", "s", "t", "e", "r", ".", "p", "n", "g">>,
       <<"f", "o", "l", "d", "e", "r", ".", "j", "p", "g">>,
       <<"f", "o", "l", "d", "e", "r", ".", "p", "n", "g">>,
       <<"c", "o", "v", "e", "r", ".", "j", "p", "g">>,
       <<"c", "o", "v", "e", "r", ".", "p", "n", "g">> >>

\* C12: findArtwork returns the first existing file in the order poster.jpg,
\* poster.png, folder.jpg, folder.png, cover.jpg, cover.png; only when none of
\* these exists it returns an image of the directory, .jpg before .jpeg before
\* .png, or none; any path returned exists in the directory.
C12_CanonicalNamesFirst ==
    poster_pc = "poster" =>
        LET directory == DirOf(poster_files, "show_dir")
        IN  IF ~NoneListedOf(directory, CanonicalArtworkNames)
            THEN /\ found_poster # NoPath
                 /\ found_poster.dir = "show_dir"
                 /\ FirstListedOf(directory, CanonicalArtworkNames, found_poster.name)
            ELSE IF NoImage(directory) THEN found_poster = NoPath
            ELSE /\ found_poster # NoPath
                 /\ found_poster.dir = "show_dir"
                 /\ ImageByExtensionOrder(directory, found_poster.name)

\* C12 witness: in a directory that lists banner.jpg, then folder.jpg, then
\* poster.jpg, the lookup has returned poster.jpg.
C12_Witness ==
    /\ poster_pc = "poster"
    /\ DirOf(poster_files, "show_dir")
           = << <<"b", "a", "n", "n", "e", "r", ".", "j", "p", "g">>,
                <<"f", "o", "l", "d", "e", "r", ".", "j", "p", "g">>,
                <<"p", "o", "s", "t", "e", "r", ".", "j", "p", "g">> >>
    /\ found_poster = [dir |-> "show_dir", name |-> <<"p", "o", "s", "t", "e", "r", ".", "j", "p", "g">>]

\* The names looked for in the show directory and in the season directory for
\* the seasons 1 and 2, in the order of precedence.
ShowArtworkNames ==
    [n \in {1, 2} |->
        IF n = 1
        THEN << <<"s", "e", "a", "s", "o", "n", "0", "1", "-", "p", "o", "s", "t", "e", "r", ".", "j", "p", "g">>,
                <<"s", "e", "a", "s", "o", "n", "0", "1", "-", "p", "o", "s", "t", "e", "r", ".", "p", "n", "g">>,
                <<"s", "e", "a", "s", "o", "n", "1", "-", "p", "o", "s", "t", "e", "r", ".", "j", "p", "g">>,
                <<"s", "e", "a", "s", "o", "n", "1", "-", "p", "o", "s", "t", "e", "r", ".", "p", "n", "g">>,
                <<"s", "e", "a", "s", "o", "n", "-", "0", "1", "-", "p", "o", "s", "t", "e", "r", ".", "j", "p", "g">>,
                <<"s", "e", "a", "s", "o", "n", "-", "0", "1", "-", "p", "o", "s", "t", "e", "r", ".", "p", "n", "g">> >>
        ELSE << <<"s", "e", "a", "s", "o", "n", "0", "2", "-", "p", "o", "s", "t", "e", "r", ".", "j", "p", "g">>,
                <<"s", "e", "a", "s", "o", "n", "0", "2", "-", "p", "o", "s", "t", "e", "r", ".", "p", "n", "g">>,
                <<"s", "e", "a", "s", "o", "n", "2", "-", "p", "o", "s", "t", "e", "r", ".", "j", "p", "g">>,
                <<"s", "e", "a", "s", "o", "n", "2", "-", "p", "o", "s", "t", "e", "r", ".", "p", "n", "g">>,
                <<"s", "e", "a", "s", "o", "n", "-", "0", "2", "-", "p", "o", "s", "t", "e", "r", ".", "j", "p", "g">>,
                <<"s", "e", "a", "s", "o", "n", "-", "0", "2", "-", "p", "o", "s", "t", "e", "r", ".", "p", "n", "g">> >>]

SeasonArtworkNames ==
    [n \in {1, 2} |->
        << <<"p", "o", "s", "t", "e", "r", ".", "j", "p", "g">>,
           <<"p", "o", "s", "t", "e", "r", ".", "p", "n", "g">>,
           <<"f", "o", "l", "d", "e", "r", ".", "j", "p", "g">>,
           <<"f", "o", "l", "d", "e", "r", ".", "p", "n", "g">>,
           IF n = 1 THEN <<"s", "e", "a", "s", "o", "n", "0", "1", "-", "p", "o", "s", "t", "e", "r", ".", "j", "p", "g">>
                    ELSE <<"s", "e", "a", "s", "o", "n", "0", "2", "-", "p", "o", "s", "t", "e", "r", ".", "j", "p", "g">>,
           IF n = 1 THEN <<"s", "e", "a", "s", "o", "n", "0", "1", "-", "p", "o", "s", "t", "e", "r", ".", "p", "n", "g">>
                    ELSE <<"s", "e", "a", "s", "o", "n", "0", "2", "-", "p", "o", "s", "t", "e", "r", ".", "p", "n", "g">> >>]

\* name is the first file of the listing with the first of the extensions
\* .jpg, .jpeg, .png that any file of the directory has
FirstImageByExtensionOrder(directory, name) ==
    /\ ImageByExtensionOrder(directory, name)
    /\ \E i \in 1..Len(directory) :
           /\ directory[i] = name
           /\ \A j \in 1..(i - 1) :
                  \A ext \in { <<".", "j", "p", "g">>, <<".", "j", "p", "e", "g">>, <<".", "p", "n", "g">> } :
                      EndsWith(name, ext) => ~EndsWith(directory[j], ext)

\* C20: the artwork of season N is the first existing file of seasonNN-poster,
\* seasonN-poster, season-NN-poster (each .jpg before .png) in the show
\* directory, whatever the season directory holds; otherwise the first of
\* poster, folder, seasonNN-poster (.jpg before .png) in the season directory;
\* otherwise the first .jpg, then .jpeg, then .png file of the season
\* directory; otherwise none.
C20_SeasonArtworkPrecedence ==
    poster_pc = "season" =>
        LET show_dir   == DirOf(poster_files, "show_dir")
            season_dir == DirOf(poster_files, "season_dir")
            in_show    == ShowArtworkNames[poster_season_num]
            in_season  == SeasonArtworkNames[poster_season_num]
        IN  IF ~NoneListedOf(show_dir, in_show)
            THEN /\ found_poster # NoPath
                 /\ found_poster.dir = "show_dir"
                 /\ FirstListedOf(show_dir, in_show, found_poster.name)
            ELSE IF ~NoneListedOf(season_dir, in_season)
            THEN /\ found_poster # NoPath
                 /\ found_poster.dir = "season_dir"
                 /\ FirstListedOf(season_dir, in_season, found_poster.name)
            ELSE IF NoImage(season_dir) THEN found_poster = NoPath
            ELSE /\ found_poster # NoPath
                 /\ found_poster.dir = "season_dir"
                 /\ FirstImageByExtensionOrder(season_dir, found_poster.name)

\* C20 witness: for season 1, the season directory lists poster.jpg and the
\* show directory lists season-01-poster.png and, before it, the poster of
\* another directory name variant; the lookup has returned a show directory
\* file.
C20_Witness ==
    /\ poster_pc = "season"
    /\ poster_season_num = 1
    /\ Listed(DirOf(poster_files, "season_dir"), <<"p", "o", "s", "t", "e", "r", ".", "j", "p", "g">>)
    /\ Listed(DirOf(poster_files, "show_dir"), <<"s", "e", "a", "s", "o", "n", "-", "0", "1", "-", "p", "o", "s", "t", "e", "r", ".", "p", "n", "g">>)
    /\ Listed(DirOf(poster_files, "show_dir"), <<"s", "e", "a", "s", "o", "n", "1", "-", "p", "o", "s", "t", "e", "r", ".", "p", "n", "g">>)
    /\ found_poster = [dir |-> "show_dir", name |-> <<"s", "e", "a", "s", "o", "n", "1", "-", "p", "o", "s", "t", "e", "r", ".", "p", "n", "g">>]

(***************************************************************************)
(* JellyfinScanner._collect_season_info                                    *)
(***************************************************************************)

\* int(digits)
RECURSIVE ParseInt(_)
ParseInt(digits) ==
    IF digits = <<>> THEN 0
    ELSE 10 * ParseInt(SubSeq(digits, 1, Len(digits) - 1))
            + (Ord(digits[Len(digits)]) - Ord("0"))

\* The end of the longest run of characters of class at s[i], s[i+1], ...:
\* the index of the first character from i on that is not in class.
RunEnd(s, i, class) ==
    LET out == {j \in i..Len(s) : s[j] \notin class}
    IN  IF out = {} THEN Len(s) + 1 ELSE CHOOSE j \in out : \A k \in out : j <= k

\* A plausible slip: at least one blank is required between "season" and the
\* digits.
season_number_after_blank(season_name) ==
    LET starts == {i \in 1..Len(season_name) :
                      /\ i + Len(SEASON) - 1 <= Len(season_name)
                      /\ SubSeq(season_name, i, i + Len(SEASON) - 1) = SEASON
                      /\ LET d == RunEnd(season_name, i + Len(SEASON), Whitespace)
                         IN  /\ d > i + Len(SEASON)
                             /\ d <= Len(season_name) /\ season_name[d] \in Digits}
    IN  IF starts = {} THEN NoNumber
        ELSE LET i == CHOOSE x \in starts : \A y \in starts : x <= y
                 d == RunEnd(season_name, i + Len(SEASON), Whitespace)
             IN  ParseInt(SubSeq(season_name, d, RunEnd(season_name, d, Digits) - 1))

\* re.search(r'season\s*(\d+)', season_name): int(match.group(1)) for the
\* leftmost match, NoNumber (season_num = None) without a match.
SeasonNumberOf(season_name) ==
    LET starts == {i \in 1..Len(season_name) :
                      /\ i + Len(SEASON) - 1 <= Len(season_name)
                      /\ SubSeq(season_name, i, i + Len(SEASON) - 1) = SEASON
                      /\ LET d == RunEnd(season_name, i + Len(SEASON), Whitespace)
                         IN  d <= Len(season_name) /\ season_name[d] \in Digits}
    IN  IF starts = {} THEN NoNumber
        ELSE LET i == CHOOSE x \in starts : \A y \in starts : x <= y
                 d == RunEnd(season_name, i + Len(SEASON), Whitespace)
             IN  ParseInt(SubSeq(season_name, d, RunEnd(season_name, d, Digits) - 1))

\* directory.glob("*.nfo"): the entries whose name ends in ".nfo", in the
\* order the directory lists them
GlobNfo(files) == SelectSeq(files, LAMBDA f : EndsWith(f.name, DOT_NFO))

\* One step of a stable sort on integer keys.
InsertStableInt(dec, e) ==
    LET later == {i \in 1..Len(dec) : e.k < dec[i].k}
        pos   == IF later = {} THEN Len(dec) + 1
                 ELSE CHOOSE i \in later : \A j \in later : i <= j
    IN  SubSeq(dec, 1, pos - 1) \o <<e>> \o SubSeq(dec, pos, Len(dec))

RECURSIVE SortDecoratedInt(_)
SortDecoratedInt(dec) ==
    IF dec = <<>> THEN <<>>
    ELSE InsertStableInt(SortDecoratedInt(SubSeq(dec, 1, Len(dec) - 1)), dec[Len(dec)])

\* sorted(seasons, key=lambda s: s.season_number)
sorted_by_season_number(seasons) ==
    LET dec == [i \in 1..Len(seasons) |-> [k |-> seasons[i].season_number, v |-> seasons[i]]]
        out == SortDecoratedInt(dec)
    IN  [i \in 1..Len(out) |-> out[i].v]

\* A plausible slip: every descriptor of the season directory is counted, the
\* season-level descriptor included.
episode_nfos_unfiltered(season_dir) == GlobNfo(season_dir.files)

\* [f for f in season_dir.glob("*.nfo") if not f.name.lower().startswith('season')]
EpisodeNfos(season_dir) ==
    SelectSeq(GlobNfo(season_dir.files), LAMBDA f : ~StartsWith(Lower(f.name), SEASON))

\* The loop over sorted(season_dirs), seasons so far.
RECURSIVE SeasonLoop(_, _, _)
SeasonLoop(season_dirs, seasons, show_dir) ==
    IF season_dirs = <<>> THEN seasons
    ELSE LET season_dir == season_dirs[1]
             season_num == SeasonNumberOf(Lower(season_dir.name))
         IN  IF season_num = NoNumber THEN SeasonLoop(Tail(season_dirs), seasons, show_dir)
             ELSE LET episode_nfos == EpisodeNfos(season_dir)
                      season_poster ==
                          _find_season_poster(EntryNames(season_dir.files), season_num,
                                              EntryNames(show_dir))
                  IN  SeasonLoop(Tail(season_dirs),
                          Append(seasons, [season_number |-> season_num,
                                           episode_count |-> Len(episode_nfos),
                                           poster_path   |-> season_poster]),
                          show_dir)

\* A plausible slip: the seasons are returned in the order of the loop, which
\* is the order of the directory names.
collect_season_info_in_name_order(show_dir) ==
    LET season_dirs ==
            SelectSeq(show_dir,
                      LAMBDA item : item.is_dir /\ StartsWith(Lower(item.name), SEASON))
        in_order ==
            sorted(season_dirs, [i \in 1..Len(season_dirs) |-> <<season_dirs[i].name>>], FALSE)
    IN  SeasonLoop(in_order, <<>>, show_dir)

\* show_dir is the sequence of the directory's entries as iterdir() lists them.
_collect_season_info(show_dir) ==
    LET season_dirs ==
            SelectSeq(show_dir,
                      LAMBDA item : item.is_dir /\ StartsWith(Lower(item.name), SEASON))
        in_order ==
            sorted(season_dirs, [i \in 1..Len(season_dirs) |-> <<season_dirs[i].name>>], FALSE)
    IN  sorted_by_season_number(SeasonLoop(in_order, <<>>, show_dir))

(***************************************************************************)
(* JellyfinScanner._parse_nfo / _parse_tvshow_with_seasons                 *)
(***************************************************************************)

\* None where a MediaItem is expected, and where a list of seasons is expected:
\* an Optional[List[Season]] is [is_none, list].
NoItem == [none |-> TRUE]

NoSeasons == [is_none |-> TRUE, list |-> <<>>]

SomeSeasons(seasons) == [is_none |-> FALSE, list |-> seasons]

UNKNOWN == <<"U", "n", "k", "n", "o", "w", "n">>

EPISODEDETAILS ==
    <<"e", "p", "i", "s", "o", "d", "e", "d", "e", "t", "a", "i", "l", "s">>

\* title or "Unknown"
TitleOrUnknown(t) == IF t = NoneVal \/ t = <<>> THEN UNKNOWN ELSE t

\* The MediaItem built from the descriptor doc of the file nfo_path, NoItem
\* when the file does not parse (the error is printed); directory lists the
\* other entries of nfo_path.parent.
_parse_nfo(nfo_path, doc, directory) ==
    IF doc = ParseError THEN NoItem
    ELSE [title           |-> TitleOrUnknown(_get_text(doc.title)),
          year            |-> _get_text(doc.year),
          media_type      |-> doc.tag,
          poster_path     |-> PathIn("parent", _find_poster(EntryNames(directory))),
          nfo_path        |-> nfo_path,
          audio_tracks    |-> _extract_audio_tracks(doc),
          subtitle_tracks |-> _extract_subtitle_tracks(doc),
          seasons         |-> NoSeasons]

SEASON_SPACE == <<"S", "e", "a", "s", "o", "n", " ">>

\* (show_dir / name).exists()
Exists(show_dir, name) == \E i \in 1..Len(show_dir) : show_dir[i].name = name

\* list((show_dir / name).glob("*.nfo")): nothing when name is no directory
GlobNfoIn(show_dir, name) ==
    LET e == show_dir[CHOOSE i \in 1..Len(show_dir) : show_dir[i].name = name]
    IN  IF e.is_dir THEN GlobNfo(e.files) ELSE <<>>

\* The tracks of the show: its own, or those of the first descriptor found in
\* "Season NN" (else "Season N") of its first season when it has none itself.
ShowTracks(doc, show_dir, seasons) ==
    LET own == [audio_tracks    |-> _extract_audio_tracks(doc),
                subtitle_tracks |-> _extract_subtitle_tracks(doc)]
    IN  IF own.audio_tracks = <<>> /\ own.subtitle_tracks = <<>> /\ seasons # <<>>
        THEN LET padded   == SEASON_SPACE \o Str02(seasons[1].season_number)
                 unpadded == SEASON_SPACE \o Str(seasons[1].season_number)
                 season_dir == IF Exists(show_dir, padded) THEN padded ELSE unpadded
             IN  IF Exists(show_dir, season_dir)
                 THEN LET episode_nfos == GlobNfoIn(show_dir, season_dir)
                      IN  IF episode_nfos # <<>> /\ episode_nfos[1].doc # ParseError
                          THEN [audio_tracks    |-> _extract_audio_tracks(episode_nfos[1].doc),
                                subtitle_tracks |-> _extract_subtitle_tracks(episode_nfos[1].doc)]
                          ELSE own
                 ELSE own
        ELSE own

\* A plausible slip: the media type is read off the root tag, as in _parse_nfo.
parse_tvshow_with_root_tag(nfo_path, doc, show_dir) ==
    IF doc = ParseError THEN NoItem
    ELSE LET seasons == _collect_season_info(show_dir)
             tracks  == ShowTracks(doc, show_dir, seasons)
         IN  [title           |-> TitleOrUnknown(_get_text(doc.title)),
              year            |-> _get_text(doc.year),
              media_type      |-> doc.tag,
              poster_path     |-> PathIn("parent", _find_poster(EntryNames(show_dir))),
              nfo_path        |-> nfo_path,
              audio_tracks    |-> tracks.audio_tracks,
              subtitle_tracks |-> tracks.subtitle_tracks,
              seasons         |-> SomeSeasons(seasons)]

_parse_tvshow_with_seasons(nfo_path, doc, show_dir) ==
    IF doc = ParseError THEN NoItem
    ELSE LET seasons == _collect_season_info(show_dir)
             tracks  == ShowTracks(doc, show_dir, seasons)
         IN  [title           |-> TitleOrUnknown(_get_text(doc.title)),
              year            |-> _get_text(doc.year),
              media_type      |-> TVSHOW,
              poster_path     |-> PathIn("parent", _find_poster(EntryNames(show_dir))),
              nfo_path        |-> nfo_path,
              audio_tracks    |-> tracks.audio_tracks,
              subtitle_tracks |-> tracks.subtitle_tracks,
              seasons         |-> SomeSeasons(seasons)]

(***************************************************************************)
(* JellyfinScanner.scan                                                    *)
(***************************************************************************)

TVSHOW_NFO == <<"t", "v", "s", "h", "o", "w", ".", "n", "f", "o">>

\* list(self.base_path.rglob("*.nfo")): nothing under a root that does not
\* exist or cannot be read, and no error either
Rglob(root, files) == IF root = "ok" THEN files ELSE <<>>

\* A plausible slip: the root tag is read without the try/except around it, so
\* a file that does not parse raises out of the loop.
ClassifyFileNoTry(f) ==
    LET filename == Lower(f.name)
    IN  IF filename = TVSHOW_NFO THEN "tvshow"
        ELSE IF StartsWith(filename, <<"s">>) /\ EndsWith(filename, DOT_NFO) THEN "episode"
        ELSE IF f.doc = ParseError THEN "raise"
        ELSE IF f.doc.tag = MOVIE THEN "movie"
        ELSE IF f.doc.tag = EPISODEDETAILS THEN "episode"
        ELSE "skip"

\* A plausible slip: the root tag is looked at before the name's first
\* letter, so that only files which are no movies count as episodes by name.
ClassifyFileRootFirst(f) ==
    LET filename == Lower(f.name)
    IN  IF filename = TVSHOW_NFO THEN "tvshow"
        ELSE IF f.doc # ParseError /\ f.doc.tag = MOVIE THEN "movie"
        ELSE IF StartsWith(filename, <<"s">>) /\ EndsWith(filename, DOT_NFO) THEN "episode"
        ELSE IF f.doc = ParseError THEN "skip"
        ELSE IF f.doc.tag = EPISODEDETAILS THEN "episode"
        ELSE "skip"

\* The body of the first loop of scan for one file: the list the file is put
\* on, "skip" when it is put on none, "raise" when an exception leaves the loop.
ClassifyFile(f) ==
    LET filename == Lower(f.name)
    IN  IF filename = TVSHOW_NFO THEN "tvshow"
        ELSE IF StartsWith(filename, <<"s">>) /\ EndsWith(filename, DOT_NFO) THEN "episode"
        ELSE IF f.doc = ParseError THEN "skip"
        ELSE IF f.doc.tag = MOVIE THEN "movie"
        ELSE IF f.doc.tag = EPISODEDETAILS THEN "episode"
        ELSE "skip"

\* The paths (indices into nfo_files) put on the list of the given class.
Classified(nfo_files, class) ==
    SelectSeq([i \in 1..Len(nfo_files) |-> i],
              LAMBDA i : /\ ClassifyFile(nfo_files[i]) = class
                         /\ \A j \in 1..i : ClassifyFile(nfo_files[j]) # "raise")

ClassifyRaises(nfo_files) ==
    \E i \in 1..Len(nfo_files) : ClassifyFile(nfo_files[i]) = "raise"

\* for nfo_file in movie_nfos: item = self._parse_nfo(nfo_file) ...
RECURSIVE ParseMovies(_, _, _)
ParseMovies(nfo_files, movie_nfos, out) ==
    IF movie_nfos = <<>> THEN out
    ELSE LET f    == nfo_files[movie_nfos[1]]
             item == _parse_nfo(movie_nfos[1], f.doc, f.dir)
         IN  ParseMovies(nfo_files, Tail(movie_nfos),
                         IF item # NoItem THEN Append(out, item) ELSE out)

\* for nfo_file in tvshow_nfos: item = self._parse_tvshow_with_seasons(nfo_file) ...
RECURSIVE ParseShows(_, _, _)
ParseShows(nfo_files, tvshow_nfos, out) ==
    IF tvshow_nfos = <<>> THEN out
    ELSE LET f    == nfo_files[tvshow_nfos[1]]
             item == _parse_tvshow_with_seasons(tvshow_nfos[1], f.doc, f.dir)
         IN  ParseShows(nfo_files, Tail(tvshow_nfos),
                        IF item # NoItem THEN Append(out, item) ELSE out)

\* A plausible slip (or another design): one pass over the files in the order
\* rglob lists them, each parsed as its list says.
RECURSIVE ParseInDiscoveryOrder(_, _, _)
ParseInDiscoveryOrder(nfo_files, i, out) ==
    IF i > Len(nfo_files) THEN out
    ELSE LET class == ClassifyFile(nfo_files[i])
             item  == IF class = "movie" THEN _parse_nfo(i, nfo_files[i].doc, nfo_files[i].dir)
                      ELSE IF class = "tvshow"
                           THEN _parse_tvshow_with_seasons(i, nfo_files[i].doc, nfo_files[i].dir)
                           ELSE NoItem
         IN  ParseInDiscoveryOrder(nfo_files, i + 1,
                                   IF item # NoItem THEN Append(out, item) ELSE out)

ScanAppendsInDiscoveryOrder(nfo_files) == ParseInDiscoveryOrder(nfo_files, 1, <<>>)

\* The paths one call of scan names in an "Error parsing ..." line: the files
\* on movie_nfos and then those on tvshow_nfos that the parse methods reject.
\* The classification loop prints nothing for a file it cannot parse.
ScanPrintsErrors(nfo_files) ==
    SelectSeq(Classified(nfo_files, "movie") \o Classified(nfo_files, "tvshow"),
              LAMBDA i : nfo_files[i].doc = ParseError)

\* A plausible slip (or another design): scan returns a copy of the list, so a
\* caller holding an earlier result keeps seeing what it was given.
returned_copy(held, self_items) == held

\* return self.items: the caller is handed the scanner's list itself, so what
\* it sees through a reference returned earlier (held) is the list as it is now.
ReturnedList(held, self_items) == self_items

\* What one call of scan appends to self.items: the movies, then the shows.
ScanAppends(nfo_files) ==
    ParseShows(nfo_files, Classified(nfo_files, "tvshow"),
               ParseMovies(nfo_files, Classified(nfo_files, "movie"), <<>>))

(***************************************************************************)
(* Specification Spec: a scanner on a library of up to MaxFiles descriptor *)
(* files; scan() is called up to MaxScans times, the first time by main or *)
(* by another caller.                                                      *)
(***************************************************************************)

MaxFiles == 2

MaxScans == 2

ScanNames ==
    { TVSHOW_NFO,
      <<"S", "c", "a", "r", "f", "a", "c", "e", ".", "n", "f", "o">>,
      <<"m", "o", "v", "i", "e", ".", "n", "f", "o">> }

BareDoc(tag) == [tag |-> tag, title |-> <<"B">>, year |-> NoneVal, streamdetails |-> NoStreamdetails]

ScanDocs == { ParseError, BareDoc(MOVIE), BareDoc(TVSHOW), BareDoc(EPISODEDETAILS) }

\* The directory of a show with one season directory holding one episode.
OneSeasonDir ==
    << [name |-> <<"S", "e", "a", "s", "o", "n", " ", "0", "1">>, is_dir |-> TRUE,
        files |-> << [name |-> <<"S", "0", "1", "E", "0", "1", ".", "n", "f", "o">>,
                      doc  |-> BareDoc(EPISODEDETAILS)] >>] >>

\* The files of a library; dir is the listing of the file's directory, which
\* the scanner reads for a tvshow.nfo only.
ScanFiles ==
    [name : ScanNames \ {TVSHOW_NFO}, doc : ScanDocs, dir : {<<>>}]
        \cup [name : {TVSHOW_NFO}, doc : ScanDocs, dir : {<<>>, OneSeasonDir}]

Libraries == UNION {[1..n -> ScanFiles] : n \in 0..MaxFiles}

Init ==
    /\ base_path \in {"ok", "missing", "unreadable"}
    /\ library \in Libraries
    /\ base_path # "ok" => library = <<>>
    /\ scanner_items = <<>>
    /\ scan_calls = 0
    /\ scan_outcome = "none"
    /\ main_result = "none"
    /\ scan_episode_nfos = <<>>
    /\ error_log = <<>>
    /\ first_result = <<>>
    /\ KeyIdle
    /\ SortIdle
    /\ ParseIdle
    /\ LangIdle
    /\ PosterIdle

\* scanner.scan()
Scan ==
    /\ scan_calls < MaxScans
    /\ LET nfo_files == Rglob(base_path, library)
       IN  IF ClassifyRaises(nfo_files)
           THEN /\ scan_outcome' = "raised"
                /\ UNCHANGED <<scanner_items, scan_episode_nfos, error_log, first_result>>
           ELSE /\ scan_outcome' = "returned"
                /\ scanner_items' = scanner_items \o ScanAppends(nfo_files)
                /\ scan_episode_nfos' = Classified(nfo_files, "episode")
                /\ error_log' = error_log \o ScanPrintsErrors(nfo_files)
                /\ first_result' = IF scan_calls = 0 THEN scanner_items'
                                   ELSE ReturnedList(first_result, scanner_items')
    /\ scan_calls' = scan_calls + 1
    /\ UNCHANGED <<base_path, library, main_result, keyVars, sortVars, parseVars, langVars, posterVars>>

\* main, up to its test of the scan's result: a new scanner, one scan, and
\* "No media found!" when the list returned is empty.
Main ==
    /\ scan_calls = 0
    /\ main_result = "none"
    /\ LET nfo_files == Rglob(base_path, library)
       IN  IF ClassifyRaises(nfo_files)
           THEN /\ scan_outcome' = "raised"
                /\ main_result' = "raised"
                /\ UNCHANGED <<scanner_items, scan_episode_nfos, error_log, first_result>>
           ELSE /\ scan_outcome' = "returned"
                /\ scanner_items' = scanner_items \o ScanAppends(nfo_files)
                /\ scan_episode_nfos' = Classified(nfo_files, "episode")
                /\ error_log' = error_log \o ScanPrintsErrors(nfo_files)
                /\ first_result' = scanner_items'
                /\ main_result' = IF scanner_items' = <<>> THEN "No media found!"
                                  ELSE "catalog"
    /\ scan_calls' = scan_calls + 1
    /\ UNCHANGED <<base_path, library, keyVars, sortVars, parseVars, langVars, posterVars>>

Next == Scan \/ Main

Spec == Init /\ [][Next]_vars

(***************************************************************************)
(* Specification SpecParse: _parse_nfo and _parse_tvshow_with_seasons on   *)
(* one descriptor and the directory it lies in.  The inputs are            *)
(*   - a descriptor with up to MaxSubtitles subtitle elements,             *)
(*   - a descriptor with up to MaxAudio audio elements,                    *)
(*   - a show descriptor without tracks beside one season directory whose  *)
(*     first descriptor carries the subtitle elements,                     *)
(*   - a show descriptor in a directory of up to MaxSeasonDirs entries,    *)
(*     or beside two season directories of 13 and 16 episodes.             *)
(***************************************************************************)

MaxSubtitles == 3

MaxSeasonDirs == 2

MaxAudio == 2

\* language texts of subtitle elements; NoneVal: no language child, or no text
SubtitleTexts ==
    { NoneVal, <<"g", "e", "r">>, <<"d", "e", "u">>, <<"D", "E">>,
      <<"e", "n">>, <<"x", "x">> }

SubtitleLists == UNION {[1..n -> SubtitleTexts] : n \in 0..MaxSubtitles}

AudioElement == [language |-> <<"e", "n">>, codec |-> <<"a", "c", "3">>, channels |-> <<"6">>]

AudioLists == { <<>>, <<AudioElement>> }

\* The text of a child of an audio element: NoneVal for no such child or no
\* text, a text of white space only, or a value.
AudioElementPool ==
    [language : {NoneVal, <<" ">>, <<"G", "E", "R">>},
     codec    : {NoneVal, <<" ">>, <<"a", "c", "3">>},
     channels : {NoneVal, <<" ">>, <<" ", "6">>}]

AudioElementLists == UNION {[1..n -> AudioElementPool] : n \in 0..MaxAudio}

DocWith(tag, audio, subtitle) ==
    [tag |-> tag, title |-> <<"B">>, year |-> NoneVal,
     streamdetails |-> [audio |-> audio, subtitle |-> subtitle]]

S01E01_NFO == <<"S", "0", "1", "E", "0", "1", ".", "n", "f", "o">>

S01E02_NFO == <<"S", "0", "1", "E", "0", "2", ".", "n", "f", "o">>

SEASON_NFO == <<"s", "e", "a", "s", "o", "n", ".", "n", "f", "o">>

\* A sub-directory of a season directory that holds a descriptor of its own;
\* ET.parse cannot read a directory.
ExtrasSubdir ==
    [name  |-> <<"e", "x", "t", "r", "a", "s">>,
     doc   |-> ParseError,
     files |-> << [name |-> S01E01_NFO, doc |-> BareDoc(EPISODEDETAILS)] >>]

\* The episode descriptors SnnE01.nfo .. SnnEmm.nfo of season nn.
EpisodeFiles(season, count) ==
    [e \in 1..count |->
        [name |-> <<"S">> \o Str02(season) \o <<"E">> \o Str02(e) \o DOT_NFO,
         doc  |-> BareDoc(EPISODEDETAILS)]]

\* A show of two seasons with 13 and 16 episodes, the second listed first.
TwoSeasonShow ==
    << [name |-> SEASON_SPACE \o Str02(2), is_dir |-> TRUE, files |-> EpisodeFiles(2, 16)],
       [name |-> SEASON_SPACE \o Str02(1), is_dir |-> TRUE, files |-> EpisodeFiles(1, 13)] >>

\* What a season directory may hold.
SeasonContents ==
    { <<>>,
      << [name |-> S01E01_NFO,
          doc  |-> DocWith(EPISODEDETAILS, <<AudioElement>>, <<<<"e", "n">>>>)],
         [name |-> poster_names[1], doc |-> ParseError] >>,
      << [name |-> SEASON_NFO, doc |-> BareDoc(EPISODEDETAILS)],
         [name |-> S01E01_NFO, doc |-> BareDoc(EPISODEDETAILS)],
         ExtrasSubdir,
         [name |-> S01E02_NFO, doc |-> BareDoc(EPISODEDETAILS)] >>,
      << [name |-> S01E01_NFO, doc |-> ParseError] >> }

SeasonDirNames ==
    { <<"S", "e", "a", "s", "o", "n", " ", "1">>,
      <<"S", "e", "a", "s", "o", "n", " ", "0", "1">>,
      <<"s", "e", "a", "s", "o", "n", "0", "1">>,
      <<"S", "e", "a", "s", "o", "n", " ", "1", "0">>,
      <<"S", "e", "a", "s", "o", "n", " ", "0">>,
      <<"S", "e", "a", "s", "o", "n">>,
      <<"E", "x", "t", "r", "a", "s">>,
      <<"S", "e", "a", "s", "o", "n", " ", "1", " ", "E", "x", "t", "r", "a", "s">>,
      <<"S", "e", "a", "s", "o", "n", " ", "3">>,
      <<"s", "e", "a", "s", "o", "n", "0", "3">> }

\* The entries a show directory may hold: directories, and a plain file whose
\* name looks like a season directory's.
ShowEntries ==
    [name : SeasonDirNames, is_dir : {TRUE}, files : SeasonContents]
        \cup { [name |-> <<"S", "e", "a", "s", "o", "n", " ", "4">>, is_dir |-> FALSE, files |-> <<>>] }

\* Listings of a directory: no two entries have the same name.
ShowDirs ==
    UNION { { d \in [1..n -> ShowEntries] :
                \A i \in 1..n : \A j \in (i + 1)..n : d[i].name # d[j].name }
            : n \in 0..MaxSeasonDirs }

BorrowDirNames ==
    { <<"S", "e", "a", "s", "o", "n", " ", "0", "1">>, <<"S", "e", "a", "s", "o", "n", " ", "1">>, <<"s", "e", "a", "s", "o", "n", "0", "1">> }

ParseInputs ==
    [doc : {DocWith(t, a, l) : t \in {MOVIE, TVSHOW}, a \in AudioLists, l \in SubtitleLists},
     dir : {<<>>}]
    \cup
    [doc : {DocWith(MOVIE, a, <<>>) : a \in AudioElementLists}, dir : {<<>>}]
    \cup
    [doc : {BareDoc(TVSHOW), DocWith(TVSHOW, <<>>, <<>>)},
     dir : { << [name |-> n, is_dir |-> TRUE,
                 files |-> << [name |-> S01E01_NFO,
                               doc  |-> DocWith(EPISODEDETAILS, a, l)] >>] >>
             : n \in BorrowDirNames, a \in AudioLists, l \in SubtitleLists }]
    \cup
    [doc : {BareDoc(TVSHOW)}, dir : ShowDirs \cup {TwoSeasonShow}]

InitParse ==
    /\ \E in \in ParseInputs :
           /\ nfo_doc = in.doc
           /\ parent_dir = in.dir
    /\ parsed_item = NoItem
    /\ parse_pc = "call"
    /\ KeyIdle
    /\ SortIdle
    /\ ScanIdle
    /\ LangIdle
    /\ PosterIdle

\* self._parse_nfo(nfo_path)
ParseNfo ==
    /\ parse_pc = "call"
    /\ parsed_item' = _parse_nfo(1, nfo_doc, parent_dir)
    /\ parse_pc' = "nfo"
    /\ UNCHANGED <<nfo_doc, parent_dir, keyVars, sortVars, scanVars, langVars, posterVars>>

\* self._parse_tvshow_with_seasons(nfo_path)
ParseTvshowWithSeasons ==
    /\ parse_pc = "call"
    /\ parsed_item' = _parse_tvshow_with_seasons(1, nfo_doc, parent_dir)
    /\ parse_pc' = "tvshow"
    /\ UNCHANGED <<nfo_doc, parent_dir, keyVars, sortVars, scanVars, langVars, posterVars>>

NextParse == ParseNfo \/ ParseTvshowWithSeasons

SpecParse == InitParse /\ [][NextParse]_vars

(***************************************************************************)
(* Specification SpecSort: main's sorting step on every list of up to      *)
(* MaxItems entities.  nfo_path tells the entities of a list apart.        *)
(***************************************************************************)

MaxItems == 3

SortTitles ==
    { <<"T", "h", "e", " ", "B">>, <<"b">>, <<"A">> }

SortYears == { NoneVal, <<"1", "9", "9", "9">> }

\* The title, year and media type of the entities: every combination of the
\* titles and years above, and one movie of a later year.
SortEntities ==
    [title : SortTitles, year : SortYears, media_type : {MOVIE, TVSHOW}]
        \cup { [title |-> <<"A">>, year |-> <<"2", "0", "0", "1">>, media_type |-> MOVIE] }

\* The list of entities l, each given its own nfo_path.
WithPaths(l) ==
    [i \in 1..Len(l) |-> [title      |-> l[i].title,
                          year       |-> l[i].year,
                          media_type |-> l[i].media_type,
                          nfo_path   |-> i]]

InitSort ==
    /\ \E n \in 0..MaxItems : \E l \in [1..n -> SortEntities] : items = WithPaths(l)
    /\ sorted_items = <<>>
    /\ sort_method = "none"
    /\ KeyIdle
    /\ ScanIdle
    /\ ParseIdle
    /\ LangIdle
    /\ PosterIdle

SortByTitle ==
    /\ sort_method = "none"
    /\ sorted_items' = sort_by_title(items)
    /\ sort_method' = "title"
    /\ UNCHANGED <<items, keyVars, scanVars, parseVars, langVars, posterVars>>

SortByYear ==
    /\ sort_method = "none"
    /\ sorted_items' = sort_by_year(items)
    /\ sort_method' = "year"
    /\ UNCHANGED <<items, keyVars, scanVars, parseVars, langVars, posterVars>>

SortByType ==
    /\ sort_method = "none"
    /\ sorted_items' = sort_by_type(items)
    /\ sort_method' = "type"
    /\ UNCHANGED <<items, keyVars, scanVars, parseVars, langVars, posterVars>>

NextSort == SortByTitle \/ SortByYear \/ SortByType

SpecSort == InitSort /\ [][NextSort]_vars

(***************************************************************************)
(* Claims about the sort engine                                            *)
(***************************************************************************)

SortKeyOf(x) == _get_sort_key(x.title)

\* a's year sorts before b's in descending order, an entity without a year last
YearBefore(a, b) ==
    /\ a.year # NoneVal
    /\ (b.year = NoneVal \/ StrLess(b.year, a.year))

\* C1: sort_by_year orders entities descending by year string, entities with
\* no year last, and entities with the same year (or both without a year) by
\* ascending sortKey of the title.
C1_YearDescThenKeyAscending ==
    sort_method = "year" =>
        \A i \in 1..Len(sorted_items) : \A j \in (i + 1)..Len(sorted_items) :
            LET a == sorted_items[i]
                b == sorted_items[j]
            IN  \/ YearBefore(a, b)
                \/ /\ a.year = b.year
                   /\ ~StrLess(SortKeyOf(b), SortKeyOf(a))

\* The comparison key each sort method gives an entity.
ComparisonKey(method, x) ==
    IF method = "title" THEN <<SortKeyOf(x)>>
    ELSE IF method = "year"
         THEN <<IF x.year = NoneVal THEN <<"0", "0", "0", "0">> ELSE x.year, SortKeyOf(x)>>
         ELSE <<x.media_type, SortKeyOf(x)>>

PositionIn(list, x) == CHOOSE p \in 1..Len(list) : list[p] = x

\* C9: each of sort_by_title, sort_by_year and sort_by_type returns a
\* permutation of its input in which any two entities with equal comparison
\* keys keep the relative order they had in the input.
C9_SortsAreStablePermutations ==
    sort_method \in {"title", "year", "type"} =>
        /\ Len(sorted_items) = Len(items)
        /\ \A i \in 1..Len(items) : \E p \in 1..Len(sorted_items) :
               sorted_items[p] = items[i]
        /\ \A i \in 1..Len(items) : \A j \in (i + 1)..Len(items) :
               ComparisonKey(sort_method, items[i]) = ComparisonKey(sort_method, items[j])
                   => PositionIn(sorted_items, items[i]) < PositionIn(sorted_items, items[j])

\* C9 witness: a sort by year has run on a list holding two entities with
\* different titles and equal comparison keys, and a third entity between them
\* in the result's order.
C9_Witness ==
    /\ sort_method = "year"
    /\ \E i \in 1..Len(items) : \E j \in (i + 1)..Len(items) :
           /\ items[i].title # items[j].title
           /\ ComparisonKey("year", items[i]) = ComparisonKey("year", items[j])
    /\ sorted_items # items

\* C10: sort_by_type places every Movie before every Show and, within one
\* category, orders entities by ascending sortKey of the title.
C10_MoviesFirstThenKeyAscending ==
    sort_method = "type" =>
        \A i \in 1..Len(sorted_items) : \A j \in (i + 1)..Len(sorted_items) :
            LET a == sorted_items[i]
                b == sorted_items[j]
            IN  /\ ~(a.media_type = TVSHOW /\ b.media_type = MOVIE)
                /\ a.media_type = b.media_type
                       => ~StrLess(SortKeyOf(b), SortKeyOf(a))

\* C10 witness: a sort by type has run on a list in which a Show stood before
\* a Movie and two entities of one category stood in descending key order.
C10_Witness ==
    /\ sort_method = "type"
    /\ \E i \in 1..Len(items) : \E j \in (i + 1)..Len(items) :
           items[i].media_type = TVSHOW /\ items[j].media_type = MOVIE
    /\ \E i \in 1..Len(items) : \E j \in (i + 1)..Len(items) :
           /\ items[i].media_type = items[j].media_type
           /\ StrLess(SortKeyOf(items[j]), SortKeyOf(items[i]))

(***************************************************************************)
(* Claims about scan                                                       *)
(***************************************************************************)

\* The file name is an episode name in the sense of the scanner's design: its
\* lower-cased form begins with the season/episode letter "s".
EpisodeNamed(name) == Len(name) > 0 /\ LowerChar(name[1]) = "s"

\* A well-formed movie descriptor: it parses, its root is movie, and its name
\* is neither tvshow.nfo nor an episode name.
WellFormedMovieDescriptor(f) ==
    /\ f.doc # ParseError
    /\ f.doc.tag = MOVIE
    /\ Lower(f.name) # TVSHOW_NFO
    /\ ~EpisodeNamed(f.name)

WellFormedTvshowNfo(f) == f.doc # ParseError /\ Lower(f.name) = TVSHOW_NFO

\* The number of entities of the scanner's list built from the file path.
EntitiesOf(path) ==
    Cardinality({k \in 1..Len(scanner_items) : scanner_items[k].nfo_path = path})

\* C4: whatever mix of well-formed and malformed descriptor files the library
\* holds, no call of scan raises, and each call adds one entity for every
\* well-formed movie descriptor and every well-formed tvshow.nfo, wherever the
\* malformed files stand in the enumeration.
C4_ScanSurvivesMalformedFiles ==
    /\ scan_outcome # "raised"
    /\ \A i \in 1..Len(library) :
           (WellFormedMovieDescriptor(library[i]) \/ WellFormedTvshowNfo(library[i]))
               => EntitiesOf(i) = scan_calls

\* C4 witness: a scan has returned on a library in which a malformed file that
\* is opened by the classification loop, and a malformed tvshow.nfo or another
\* malformed file, stand before a well-formed movie descriptor or tvshow.nfo.
C4_Witness ==
    /\ scan_calls = 1
    /\ scan_outcome = "returned"
    /\ \E i \in 1..Len(library) : \E j \in (i + 1)..Len(library) :
           /\ library[i].doc = ParseError
           /\ Lower(library[i].name) # TVSHOW_NFO
           /\ ~EpisodeNamed(library[i].name)
           /\ WellFormedMovieDescriptor(library[j]) \/ WellFormedTvshowNfo(library[j])
           /\ EntitiesOf(j) = 1

\* C6: no entity of the scanner's list is built from a descriptor whose root
\* element is episodedetails, whatever the file is named.
C6_NoEntityFromEpisodeRoot ==
    \A k \in 1..Len(scanner_items) :
        library[scanner_items[k].nfo_path].doc.tag # EPISODEDETAILS

\* C7: a scan of a root path that does not exist or cannot be read is fatal: it
\* does not return, and main does not report it as it reports an empty library.
C7_BadRootIsFatal ==
    (base_path # "ok" /\ scan_calls > 0)
        => /\ scan_outcome = "raised"
           /\ main_result # "No media found!"

\* C8 as stated: the list a scan returns holds the entities in the order in
\* which their descriptor files were enumerated.
C8_Original ==
    scan_calls = 1 =>
        \A a \in 1..Len(scanner_items) : \A b \in (a + 1)..Len(scanner_items) :
            scanner_items[a].nfo_path < scanner_items[b].nfo_path

\* The call of scan (1, 2, ...) that appended position k of the scanner's
\* list; every call on the unchanged library appends equally many entities.
CallOf(k) == ((k - 1) \div (Len(scanner_items) \div scan_calls)) + 1

\* C8 as amended: each call of scan appends its Movie entities first, in the
\* order their descriptors were enumerated, and then its Show entities, in the
\* order their tvshow.nfo files were enumerated.
C8_MoviesThenShowsInDiscoveryOrder ==
    \A a \in 1..Len(scanner_items) : \A b \in (a + 1)..Len(scanner_items) :
        CallOf(a) = CallOf(b) =>
            \/ /\ scanner_items[a].media_type = MOVIE
               /\ scanner_items[b].media_type = TVSHOW
            \/ /\ scanner_items[a].media_type = scanner_items[b].media_type
               /\ scanner_items[a].nfo_path < scanner_items[b].nfo_path

\* C8 witness: a scan has returned a list in which a Movie stands before a
\* Show whose tvshow.nfo was enumerated before the movie's descriptor.
C8_Witness ==
    /\ scan_calls = 1
    /\ \E a \in 1..Len(scanner_items) : \E b \in (a + 1)..Len(scanner_items) :
           /\ scanner_items[a].media_type = MOVIE
           /\ scanner_items[b].media_type = TVSHOW
           /\ scanner_items[b].nfo_path < scanner_items[a].nfo_path

(***************************************************************************)
(* Claims about the parse methods                                          *)
(***************************************************************************)

\* C3: the seasons of a show hold no two Season records with the same number,
\* also when several season directories parse to the same number.
C3_NoDuplicateSeasonNumbers ==
    (parse_pc = "tvshow" /\ parsed_item # NoItem) =>
        LET seasons == parsed_item.seasons.list
        IN  \A i \in 1..Len(seasons) : \A j \in (i + 1)..Len(seasons) :
                seasons[i].season_number # seasons[j].season_number

\* The subtitle elements of a descriptor.
SubtitleElements(doc) ==
    IF doc = ParseError \/ doc.streamdetails = NoStreamdetails THEN <<>>
    ELSE doc.streamdetails.subtitle

\* The display names of the subtitle elements that have a language text, in
\* source order.
DisplayNames(elements) ==
    LET with_text == SelectSeq(elements, HasText)
    IN  [i \in 1..Len(with_text) |-> _convert_language_code(Strip(with_text[i]))]

\* tracks holds each display name of names once, in the order of the first
\* occurrences in names.
IsFirstSeenOrder(tracks, names) ==
    LET FirstAt(n) == CHOOSE i \in 1..Len(names) :
                          names[i] = n /\ \A j \in 1..(i - 1) : names[j] # n
    IN  /\ \A i \in 1..Len(tracks) : \A j \in (i + 1)..Len(tracks) : tracks[i] # tracks[j]
        /\ {tracks[i] : i \in 1..Len(tracks)} = {names[i] : i \in 1..Len(names)}
        /\ \A i \in 1..Len(tracks) : \A j \in (i + 1)..Len(tracks) :
               FirstAt(tracks[i]) < FirstAt(tracks[j])

\* The descriptors the tracks of the parsed item can come from: the descriptor
\* itself and the descriptors in the directories beside it.
TrackSources ==
    {nfo_doc} \cup UNION { {parent_dir[i].files[k].doc : k \in 1..Len(parent_dir[i].files)}
                            : i \in 1..Len(parent_dir) }

\* C5: the subtitle tracks of a parsed descriptor hold no display name twice
\* and keep the order in which the names are first seen in the source, also
\* for language codes that only collide once converted and for the tracks a show
\* borrows from an episode descriptor.
C5_SubtitleTracksDeduplicated ==
    (parse_pc \in {"nfo", "tvshow"} /\ parsed_item # NoItem) =>
        \E src \in TrackSources :
            IsFirstSeenOrder(parsed_item.subtitle_tracks,
                             DisplayNames(SubtitleElements(src)))

\* C5 witness: a show without tracks of its own has borrowed the subtitle
\* tracks of an episode descriptor in which three different codes of one
\* language follow each other.
C5_Witness ==
    /\ parse_pc = "tvshow"
    /\ SubtitleElements(nfo_doc) = <<>>
    /\ parsed_item.subtitle_tracks = <<German>>
    /\ \E i \in 1..Len(parent_dir) : \E k \in 1..Len(parent_dir[i].files) :
           LET e == SubtitleElements(parent_dir[i].files[k].doc)
           IN  /\ Len(e) = 3
               /\ \A x \in 1..3 : HasText(e[x])
               /\ e[1] # e[2] /\ e[2] # e[3] /\ e[1] # e[3]

\* The integer matched by season\s*(\d+) in the lower-cased name, NoNumber when
\* the pattern matches nowhere: the leftmost place where "season", any
\* whitespace and at least one digit follow each other, and all the digits
\* that stand there.
MatchedInteger(name) ==
    LET s == Lower(name)
        Blank(a, b) == \A k \in a..b : s[k] = " "
        AllDigits(a, b) == \A k \in a..b : s[k] \in Digits
        \* "season", blanks and a digit at d follow each other from i on
        MatchAt(i, d) ==
            /\ i + 5 <= Len(s)
            /\ <<s[i], s[i + 1], s[i + 2], s[i + 3], s[i + 4], s[i + 5]>>
                   = <<"s", "e", "a", "s", "o", "n">>
            /\ Blank(i + 6, d - 1)
            /\ s[d] \in Digits
        starts == {i \in 1..Len(s) : \E d \in (i + 6)..Len(s) : MatchAt(i, d)}
    IN  IF starts = {} THEN NoNumber
        ELSE LET i == CHOOSE x \in starts : \A y \in starts : x <= y
                 d == CHOOSE x \in (i + 6)..Len(s) : MatchAt(i, x)
                 e == CHOOSE x \in d..Len(s) :
                          AllDigits(d, x) /\ (x = Len(s) \/ s[x + 1] \notin Digits)
             IN  ParseInt(SubSeq(s, d, e))

\* The sub-directories of the show directory the aggregator looks at: those
\* whose lower-cased name starts with "season".
SeasonNamedDirs ==
    {i \in 1..Len(parent_dir) :
        /\ parent_dir[i].is_dir
        /\ Len(parent_dir[i].name) >= 6
        /\ Lower(SubSeq(parent_dir[i].name, 1, 6)) = <<"s", "e", "a", "s", "o", "n">>}

HasDirNamed(name) ==
    \E i \in 1..Len(parent_dir) : parent_dir[i].is_dir /\ parent_dir[i].name = name

\* C13: each sub-directory whose lower-cased name starts with "season" yields
\* one Season with the integer matched by season\s*(\d+) ("Season 3" and
\* "season03" both yield 3); a sub-directory whose name does not start with
\* "season", or starts with it and has no such integer, yields no Season and no
\* error.
C13_SeasonNumberExtraction ==
    (parse_pc = "tvshow" /\ nfo_doc # ParseError) =>
        /\ parsed_item # NoItem
        /\ LET seasons == parsed_item.seasons.list
           IN  /\ \A n \in {MatchedInteger(parent_dir[i].name) : i \in 1..Len(parent_dir)}
                         \cup {seasons[k].season_number : k \in 1..Len(seasons)} :
                       Cardinality({k \in 1..Len(seasons) : seasons[k].season_number = n})
                           = IF n = NoNumber THEN 0
                             ELSE Cardinality({i \in SeasonNamedDirs :
                                                  MatchedInteger(parent_dir[i].name) = n})
               /\ (HasDirNamed(<<"S", "e", "a", "s", "o", "n", " ", "3">>) \/ HasDirNamed(<<"s", "e", "a", "s", "o", "n", "0", "3">>))
                      => \E k \in 1..Len(seasons) : seasons[k].season_number = 3

\* C13 witness: the seasons of a show directory that holds the sub-directories
\* "season03" and "Extras" have been collected: one Season, its number 3.
C13_Witness ==
    /\ parse_pc = "tvshow"
    /\ HasDirNamed(<<"s", "e", "a", "s", "o", "n", "0", "3">>)
    /\ HasDirNamed(<<"E", "x", "t", "r", "a", "s">>)
    /\ parsed_item # NoItem
    /\ Len(parsed_item.seasons.list) = 1
    /\ parsed_item.seasons.list[1].season_number = 3

\* C15: every Season record of a show has a number that is a positive integer
\* (>= 1), whatever the accepted season directories are named ("Season 0"
\* included).
C15_SeasonNumbersPositive ==
    (parse_pc = "tvshow" /\ parsed_item # NoItem) =>
        \A k \in 1..Len(parsed_item.seasons.list) :
            parsed_item.seasons.list[k].season_number >= 1

\* The show descriptor carries no audio and no subtitle track.
ShowHasNoTracks ==
    /\ nfo_doc # ParseError
    /\ _extract_audio_tracks(nfo_doc) = <<>>
    /\ _extract_subtitle_tracks(nfo_doc) = <<>>

\* The first descriptor file that directory entry i lists: the record with its
\* doc, NoItem when the directory lists none.
FirstDescriptorOf(i) ==
    LET nfos == SelectSeq(parent_dir[i].files,
                          LAMBDA f : Len(f.name) >= 4
                                     /\ SubSeq(f.name, Len(f.name) - 3, Len(f.name)) = <<".", "n", "f", "o">>)
    IN  IF nfos = <<>> THEN NoItem ELSE nfos[1]

\* The tracks that parsed_item has are those of the descriptor doc, none when
\* doc does not parse.
TracksAreThoseOf(doc) ==
    IF doc = ParseError
    THEN parsed_item.audio_tracks = <<>> /\ parsed_item.subtitle_tracks = <<>>
    ELSE /\ parsed_item.audio_tracks = _extract_audio_tracks(doc)
         /\ parsed_item.subtitle_tracks = _extract_subtitle_tracks(doc)

\* C16: a show whose own descriptor yields no tracks and that has at least one
\* season is emitted with the tracks of the first descriptor file of the
\* directory of its first (lowest-numbered) season, whatever that accepted
\* directory is named, and with no tracks when that descriptor does not parse.
C16_TracksBorrowedFromFirstSeason ==
    (parse_pc = "tvshow" /\ ShowHasNoTracks) =>
        /\ parsed_item # NoItem
        /\ LET seasons == parsed_item.seasons.list
           IN  seasons # <<>> =>
                   \E i \in SeasonNamedDirs :
                       /\ MatchedInteger(parent_dir[i].name) = seasons[1].season_number
                       /\ FirstDescriptorOf(i) # NoItem
                              => TracksAreThoseOf(FirstDescriptorOf(i).doc)

(***************************************************************************)
(* Further claims about scan                                               *)
(***************************************************************************)

\* C14: every entity of a scan result with category Movie has seasons unset,
\* and seasons is set only on entities built from a show descriptor (a file
\* named tvshow.nfo).
C14_SeasonsOnlyOnShows ==
    \A k \in 1..Len(scanner_items) :
        /\ scanner_items[k].media_type = <<"m", "o", "v", "i", "e">>
               => scanner_items[k].seasons.is_none
        /\ ~scanner_items[k].seasons.is_none
               => /\ Lower(library[scanner_items[k].nfo_path].name) = <<"t", "v", "s", "h", "o", "w", ".", "n", "f", "o">>
                  /\ scanner_items[k].media_type = <<"t", "v", "s", "h", "o", "w">>

\* C14 witness: a scan has returned a Movie entity without seasons and a Show
\* entity with one season.
C14_Witness ==
    /\ scan_outcome = "returned"
    /\ \E k \in 1..Len(scanner_items) :
           /\ scanner_items[k].media_type = <<"m", "o", "v", "i", "e">>
           /\ scanner_items[k].seasons.is_none
    /\ \E k \in 1..Len(scanner_items) :
           /\ scanner_items[k].media_type = <<"t", "v", "s", "h", "o", "w">>
           /\ ~scanner_items[k].seasons.is_none
           /\ Len(scanner_items[k].seasons.list) = 1

\* The paths named in the error lines printed so far.
Logged == {error_log[k] : k \in 1..Len(error_log)}

\* C17: for every malformed descriptor file met during a scan, whatever its
\* name, at least one log entry naming that file has been produced.
C17_MalformedFilesAreLogged ==
    (scan_calls > 0 /\ scan_outcome = "returned") =>
        \A i \in 1..Len(library) :
            library[i].doc = ParseError => i \in Logged

\* The lower-cased name starts with the letter s and is not tvshow.nfo.
StartsWithS(name) ==
    /\ Len(name) > 0
    /\ name[1] \in {"s", "S"}
    /\ Lower(name) # <<"t", "v", "s", "h", "o", "w", ".", "n", "f", "o">>

\* C18: a descriptor file whose lower-cased name starts with the letter s, and
\* that is not tvshow.nfo, is put on the episode list without being opened (so
\* also when it does not parse, and without an error line) and is never the
\* source of an entity of the scan result, whatever its root element is.
C18_EpisodeNamedFilesNeverEmitted ==
    \A i \in 1..Len(library) :
        StartsWithS(library[i].name) =>
            /\ EntitiesOf(i) = 0
            /\ i \notin Logged
            /\ (scan_calls > 0 /\ scan_outcome = "returned")
                   => \E k \in 1..Len(scan_episode_nfos) : scan_episode_nfos[k] = i

\* C18 witness: a scan has returned on a library that holds a movie-rooted
\* Scarface.nfo; the file is on the episode list and the result has no entity
\* for it.
C18_Witness ==
    /\ scan_calls > 0
    /\ scan_outcome = "returned"
    /\ \E i \in 1..Len(library) :
           /\ library[i].name = <<"S", "c", "a", "r", "f", "a", "c", "e", ".", "n", "f", "o">>
           /\ library[i].doc # ParseError
           /\ library[i].doc.tag = <<"m", "o", "v", "i", "e">>
           /\ \E k \in 1..Len(scan_episode_nfos) : scan_episode_nfos[k] = i
           /\ EntitiesOf(i) = 0

\* C19: a well-formed descriptor file that is neither named tvshow.nfo nor
\* has an episode name is emitted as an entity classified by its root element:
\* a Movie for the root movie, a Show for the root tvshow.
C19_OtherFilesClassifiedByRoot ==
    (scan_calls > 0 /\ scan_outcome = "returned") =>
        \A i \in 1..Len(library) :
            (/\ library[i].doc # ParseError
             /\ Lower(library[i].name) # <<"t", "v", "s", "h", "o", "w", ".", "n", "f", "o">>
             /\ ~StartsWithS(library[i].name)
             /\ library[i].doc.tag \in { <<"m", "o", "v", "i", "e">>, <<"t", "v", "s", "h", "o", "w">> })
                => \E k \in 1..Len(scanner_items) :
                       /\ scanner_items[k].nfo_path = i
                       /\ scanner_items[k].media_type = library[i].doc.tag

(***************************************************************************)
(* Further claims about the season aggregator                              *)
(***************************************************************************)

\* The entry of a season directory is a file and not a sub-directory.
IsFile(entry) == "files" \notin DOMAIN entry

\* The number of descriptor files directly inside directory entry i whose
\* lower-cased name does not start with "season".
EpisodeDescriptorsIn(i) ==
    Cardinality({k \in 1..Len(parent_dir[i].files) :
                    LET f == parent_dir[i].files[k]
                    IN  /\ IsFile(f)
                        /\ Len(f.name) >= 4
                        /\ SubSeq(f.name, Len(f.name) - 3, Len(f.name)) = <<".", "n", "f", "o">>
                        /\ ~(/\ Len(f.name) >= 6
                             /\ Lower(SubSeq(f.name, 1, 6)) = <<"s", "e", "a", "s", "o", "n">>)})

\* The season directories that yield a Season.
AcceptedSeasonDirs == {i \in SeasonNamedDirs : MatchedInteger(parent_dir[i].name) # NoNumber}

\* C21: the episode count of every Season is the number of descriptor files
\* directly inside its season directory whose lower-cased name does not start
\* with "season"; season-level descriptors and the files of nested
\* sub-directories are not counted (season directories with 13 and 16 episode
\* descriptors yield the counts 13 and 16).
C21_EpisodeCountIsDirectDescriptors ==
    (parse_pc = "tvshow" /\ parsed_item # NoItem) =>
        LET seasons == parsed_item.seasons.list
            Pair(i) == <<MatchedInteger(parent_dir[i].name), EpisodeDescriptorsIn(i)>>
        IN  /\ Len(seasons) = Cardinality(AcceptedSeasonDirs)
            /\ \A p \in {Pair(i) : i \in AcceptedSeasonDirs} :
                   Cardinality({k \in 1..Len(seasons) :
                                   <<seasons[k].season_number, seasons[k].episode_count>> = p})
                       = Cardinality({i \in AcceptedSeasonDirs : Pair(i) = p})
            /\ parent_dir = TwoSeasonShow =>
                   /\ Len(seasons) = 2
                   /\ seasons[1].season_number = 1 /\ seasons[1].episode_count = 13
                   /\ seasons[2].season_number = 2 /\ seasons[2].episode_count = 16

\* C21 witness: the seasons of a show have been collected whose one season
\* directory holds a season-level descriptor, two episode descriptors and a
\* sub-directory with a descriptor of its own; the count is 2.
C21_Witness ==
    /\ parse_pc = "tvshow"
    /\ parsed_item # NoItem
    /\ Len(parent_dir) = 1
    /\ \E k \in 1..Len(parent_dir[1].files) :
           /\ ~IsFile(parent_dir[1].files[k])
           /\ Len(parent_dir[1].files[k].files) = 1
    /\ \E k \in 1..Len(parent_dir[1].files) :
           parent_dir[1].files[k].name = <<"s", "e", "a", "s", "o", "n", ".", "n", "f", "o">>
    /\ Len(parsed_item.seasons.list) = 1
    /\ parsed_item.seasons.list[1].episode_count = 2

\* C22: the seasons are ordered by non-decreasing season number, whatever the
\* order the directory lists the season directories in and whatever order
\* their names sort to ("Season 10" sorts before "Season 3").
C22_SeasonsOrderedByNumber ==
    (parse_pc = "tvshow" /\ parsed_item # NoItem) =>
        LET seasons == parsed_item.seasons.list
        IN  \A a \in 1..Len(seasons) : \A b \in (a + 1)..Len(seasons) :
                seasons[a].season_number <= seasons[b].season_number

\* C22 witness: the seasons of a show directory that lists "Season 10" and
\* "Season 3" have been collected: season 3, then season 10.
C22_Witness ==
    /\ parse_pc = "tvshow"
    /\ parsed_item # NoItem
    /\ HasDirNamed(<<"S", "e", "a", "s", "o", "n", " ", "1", "0">>)
    /\ HasDirNamed(<<"S", "e", "a", "s", "o", "n", " ", "3">>)
    /\ Len(parsed_item.seasons.list) = 2
    /\ parsed_item.seasons.list[1].season_number = 3
    /\ parsed_item.seasons.list[2].season_number = 10

(***************************************************************************)
(* Claims about the audio extraction                                       *)
(***************************************************************************)

\* The field of an audio element is present: the child element has a text
\* that is more than white space.
Present(text) == text # NoneVal /\ \E k \in 1..Len(text) : text[k] # " "

\* The present fields of an audio element in the order language, codec,
\* channels: the normalized language name, the upper-cased codec, the channel
\* count with "ch".
PresentFields(audio) ==
    (IF Present(audio.language)
     THEN <<_convert_language_code(Strip(audio.language))>> ELSE <<>>)
    \o (IF Present(audio.codec) THEN <<Upper(Strip(audio.codec))>> ELSE <<>>)
    \o (IF Present(audio.channels) THEN <<Strip(audio.channels) \o <<"c", "h">>>> ELSE <<>>)

\* fields joined by single spaces, for one to three fields
SpaceJoined(fields) ==
    IF Len(fields) = 1 THEN fields[1]
    ELSE IF Len(fields) = 2 THEN fields[1] \o <<" ">> \o fields[2]
    ELSE fields[1] \o <<" ">> \o fields[2] \o <<" ">> \o fields[3]

\* The audio elements under fileinfo/streamdetails of a descriptor.
AudioElements(doc) ==
    IF doc = ParseError \/ doc.streamdetails = NoStreamdetails THEN <<>>
    ELSE doc.streamdetails.audio

\* C23: the audio tracks of a descriptor are, in source order and with
\* duplicates kept, one string for each audio element that has at least one
\* present field: its present fields among normalized language name,
\* upper-cased codec and channel count suffixed with "ch", in that order,
\* joined by single spaces; an element without a present field contributes
\* nothing.
C23_AudioTracksFromPresentFields ==
    (parse_pc \in {"nfo", "tvshow"} /\ parsed_item # NoItem /\ parent_dir = <<>>) =>
        LET with_fields == SelectSeq(AudioElements(nfo_doc),
                                     LAMBDA audio : PresentFields(audio) # <<>>)
        IN  parsed_item.audio_tracks
                = [k \in 1..Len(with_fields) |-> SpaceJoined(PresentFields(with_fields[k]))]

\* The number of files that are the source of an entity of the scanner's list.
EmittingFiles == Cardinality({scanner_items[k].nfo_path : k \in 1..Len(scanner_items)})

\* C24: the scanner's list is never cleared: after k calls of scan on an
\* unchanged library with n emitted entities the list has k * n entities, the
\* entities of the earlier calls followed by a fresh set, and the list the first
\* call returned is the same object: it has grown with the later calls.
C24_ItemsAccumulateAcrossScans ==
    (scan_calls > 0 /\ scan_outcome = "returned") =>
        /\ Len(scanner_items) = scan_calls * EmittingFiles
        /\ \A k \in (EmittingFiles + 1)..Len(scanner_items) :
               scanner_items[k] = scanner_items[k - EmittingFiles]
        /\ first_result = scanner_items

\* C24 witness: scan has been called twice on a library of two emitted
\* entities; the list seen through the first call's result holds four.
C24_Witness ==
    /\ scan_calls = 2
    /\ scan_outcome = "returned"
    /\ EmittingFiles = 2
    /\ Len(first_result) = 4

====
